---- MODULE Spec2Model ----
(***************************************************************************)
(* A model of the 1-Wire bus engine (onewire.rs), the DS18B20 driver       *)
(* (ds18b20.rs) and the temperature sampling task (task/temp_sensor.rs).   *)
(*                                                                         *)
(* Spec        : one bus operation run, bit slot by bit slot, against a    *)
(*               line shared with simulated devices.                       *)
(* SpecSampler : the temp_sensor task: driver construction and the         *)
(*               sampling cycles with their checksum retries.              *)
(***************************************************************************)
EXTENDS Integers, Sequences, FiniteSets, TLC

VARIABLES
    \* ---- bus engine (onewire.rs) ----
    op,                \* the bus operation being run
    pc,                \* position inside it
    result,            \* "none" until the operation returns
    found,             \* the address returned with Ok by find_first_device
    output,            \* the value returned with Ok by a function of the
                       \* driver
    now,               \* microseconds on the monotonic clock
    pin,               \* the master's open-drain output: "high" = released
    instant,           \* wait_for_high: Instant::now() at entry
    start,             \* reset: Instant::now() when listening begins
    device_present,    \* reset: the presence latch
    address,           \* the address argument of match_address and
                       \* send_command; in find_first_device, the address
                       \* being assembled
    bit_index,         \* loop index of find_first_device and of read_byte
    false_bit,         \* find_first_device: !read_bit() of the first slot
    true_bit,          \* find_first_device: !read_bit() of the second slot
    i,                 \* write_byte: loop index
    byte,              \* write_byte: the byte to write
    nbytes,            \* write_bytes / read_bytes: bytes done so far
    command,           \* send_command: the command argument
    acc,               \* read_byte: byte_accumulator, then the byte returned
    buffer,            \* read_bytes: the bytes read so far
    phase,             \* position inside write_bit / read_bit:
                       \* "none", "low" (after set_low), "released"
    \* ---- the line and the devices on it ----
    devices,           \* addresses of the devices on the bus
    participating,     \* devices still taking part in the running search
    busHeldLowUntil,   \* an external fault holds the line low before this time
    pulse,             \* the low pulse seen on the line after the reset pulse
    unplugged,         \* the devices were removed during the operation
    memory,            \* the bytes a device sends when it is read; in
                       \* check_crc8, the data it is given
    deviceLow,         \* a device holds the line low in the running read slot
    \* ---- records of what the master did ----
    kind,              \* the last bit slot begun: "write", "read" or "none"
    bit,               \* the bit written by, or read in, the last slot
    fallAt,            \* when the last slot began (set_low)
    riseAt,            \* when the master last released the line (set_high)
    sampleAt,          \* when the last read slot sampled the line
    slotEnd,           \* when the last completed slot returned
    gap,               \* for how long the line had been released when the
                       \* last slot began
    txBits,            \* what the write slots carried, in order
    rxBits,            \* what the read slots sampled, in order
    slots,             \* bit slots (read or write) issued so far
    lowCount,          \* times the master drove the line low
    highPolls,         \* wait_for_high polls that read the line low
    resets,            \* calls of reset()
    \* ---- sampling task (task/temp_sensor.rs) ----
    tpc,               \* position of the temp_sensor task
    configured,        \* the device address the task is configured with
    sensor,            \* the Ds18b20 held by the task: its address, or NoSensor
    retries,           \* the cycle's retry counter
    reading,           \* the last attempt's Result
    attempts,          \* conversion+read attempts begun in this cycle
    crcFailures,       \* attempts of this cycle that ended in ChecksumFailed
    scratch,           \* read_scratchpad: the buffer of the last attempt
    watch,             \* the value held by the temperature watch
    published,         \* readings sent in this cycle
    cycles,            \* cycles completed
    clock,             \* milliseconds on the embassy clock
    startedAt,         \* when the attempt's start_temp_measurement returned
                       \* Ok; -1 if it has not
    seen,              \* the reading last taken from the watch by another task
    \* ---- in-memory log (memlog.rs) ----
    GLOBAL_LOGGER,     \* the LogStorage: records (newest first), utilization,
                       \* capacity
    logpc,             \* "static" before memlog::init, "ready" after it, or
                       \* the panic that stopped the program
    logged,            \* calls of add_record made so far
    logCall,           \* the last call made on the storage and its arguments
    \* ---- receivers of the temperature watch, the fan ----
    history,           \* every reading sent to the temperature watch, in order
    at_id,             \* for each receiver, the number of the last message
                       \* it has seen
    received,          \* for each receiver, the readings it obtained, in order
    pid_controller,    \* fan_temp_control: the FanPidController
    fanduty,           \* the value held by the fan-duty watch
    dutySent,          \* values sent to the fan-duty watch
    pwm,               \* the duty set on the PWM channel
    pwmAt,             \* the number of the last duty the fan_duty task has seen
    \* ---- display state and power sequences ----
    state,             \* SharedState: the State in the cell
    pincontrol_channel, \* the messages waiting for pin_control, oldest first,
                       \* each with the function and call that sent it
    buzzer_channel,    \* the patterns waiting for buzzer_control
    fpc,               \* the power function being called and its position
    fresult,           \* what the last power function call returned
    setterCall,        \* the last direct call of a set_* function
    cbpc,              \* position of the case_button task
    pinctl,            \* pin_control: the message of the button it holds down
    pin_levels,        \* the level of each output pin
    pinlog,            \* every set_high / set_low of pin_control, in order
    callsMade,         \* calls of power and set_* functions made so far
    presses,           \* falling edges of the case button so far
    otherSends,        \* messages sent by the console and the HTTP server
    ignored            \* presses ignored in the invalid-state arm

\* What never changes while an operation runs.
fixedVars == <<op, command, busHeldLowUntil, memory>>
\* The locals of reset and wait_for_high.
resetVars == <<instant, start, device_present, pulse, highPolls, resets>>
\* The locals of the loops over bits and bytes.
loopVars == <<address, bit_index, false_bit, true_bit, nbytes, acc, buffer, found,
              output, participating>>
\* The record of the bit slots, less the line itself.
slotVars == <<phase, kind, bit, fallAt, sampleAt, slotEnd, gap, deviceLow,
              txBits, rxBits, slots>>

busVars == <<fixedVars, resetVars, loopVars, slotVars, pc, result, now, pin,
             i, byte, devices, unplugged, riseAt, lowCount>>
taskVars == <<tpc, configured, sensor, retries, reading, attempts,
              crcFailures, scratch, watch,
              published, cycles, clock, startedAt, seen>>
logVars == <<GLOBAL_LOGGER, logpc, logged, logCall>>
\* What lies outside the bus engine and the sampling task.
consumerVars == <<history, at_id, received, pid_controller, fanduty, dutySent,
                  pwm, pwmAt>>
powerVars == <<state, pincontrol_channel, buzzer_channel, fpc, fresult,
               setterCall, cbpc, pinctl, pin_levels, pinlog, callsMade,
               presses, otherSends, ignored>>
restVars == <<logVars, consumerVars, powerVars>>
vars == <<busVars, taskVars, restVars>>

----------------------------------------------------------------------------
(* Bounds of the model. *)

\* Simulated devices carry serial numbers 0..MaxSerial.
MaxSerial == 2
\* At most this many devices share the bus.
MaxDevices == 2
\* Sampling cycles explored.
MaxCycles == 2

----------------------------------------------------------------------------
(* Bytes, 64-bit words and the CRC. *)

Pow2(n) == 2 ^ n

\* Bit k of a natural number.
Bit(n, k) == (n \div Pow2(k)) % 2

\* Bitwise exclusive or of two bytes.
Xor8(a, b) ==
    LET x(k) == ((Bit(a, k) + Bit(b, k)) % 2) * Pow2(k)
    IN  x(0) + x(1) + x(2) + x(3) + x(4) + x(5) + x(6) + x(7)

\* A u64 is held as four 16-bit limbs, least significant first.
U64Zero == <<0, 0, 0, 0>>
U64Bit(a, k) == Bit(a[(k \div 16) + 1], k % 16)
U64SetBit(a, k) ==
    IF U64Bit(a, k) = 1 THEN a
    ELSE [a EXCEPT ![(k \div 16) + 1] = @ + Pow2(k % 16)]
U64ClearBit(a, k) ==
    IF U64Bit(a, k) = 0 THEN a
    ELSE [a EXCEPT ![(k \div 16) + 1] = @ - Pow2(k % 16)]
U64FlipBit(a, k) == IF U64Bit(a, k) = 1 THEN U64ClearBit(a, k) ELSE U64SetBit(a, k)

\* a < b as unsigned 64-bit values.
U64Less(a, b) ==
    \E k \in 1..4 : a[k] < b[k] /\ \A j \in (k + 1)..4 : a[j] = b[j]

to_be_bytes(a) ==
    [j \in 1..8 |-> IF j % 2 = 1 THEN a[(10 - j) \div 2] \div 256
                                 ELSE a[(10 - j) \div 2] % 256]

\* u64::to_le_bytes
to_le_bytes(a) ==
    [j \in 1..8 |-> IF j % 2 = 1 THEN a[(j + 1) \div 2] % 256
                                 ELSE a[j \div 2] \div 256]
\* u64::from_le_bytes
from_le_bytes(b) == [k \in 1..4 |-> b[2 * k - 1] + 256 * b[2 * k]]

\* The reflected form of the polynomial 0x31.
CRC_POLY == 140

\* One bit of the CRC-8/MAXIM-DOW register update.
CrcBit(crc, lsb) ==
    LET xor_lsbs == (lsb + crc) % 2
        shifted  == crc \div 2
    IN  IF xor_lsbs # 0 THEN Xor8(shifted, CRC_POLY) ELSE shifted

\* (In the two folds below the register is computed, as c, before the next
\* step is taken with it.)
RECURSIVE CrcByte(_, _, _)
\* The register after bits k..7 of byte_val, least significant bit first.
CrcByte(crc, byte_val, k) ==
    IF k = 8 THEN crc
    ELSE CHOOSE r \in {CrcByte(c, byte_val, k + 1) :
                           c \in {CrcBit(crc, Bit(byte_val, k))}} : TRUE

RECURSIVE Checksum(_, _, _)
\* The checksum of data[from..Len(data)], starting from register crc.
Checksum(crc, data, from) ==
    IF from > Len(data) THEN crc
    ELSE CHOOSE r \in {Checksum(c, data, from + 1) :
                           c \in {CrcByte(crc, data[from], 0)}} : TRUE

check_crc8_from_ff(data) ==
    IF Checksum(255, data, 1) # 0 THEN "ChecksumFailed" ELSE "Ok"

check_crc8_low_bits(data) ==
    IF Checksum(0, data, 1) % 16 # 0 THEN "ChecksumFailed" ELSE "Ok"

check_crc8_none(data) == "Ok"

check_crc8(data) ==
    IF Checksum(0, data, 1) # 0 THEN "ChecksumFailed" ELSE "Ok"

----------------------------------------------------------------------------
(* Program constants. *)

SEARCH_NORMAL == 240
RECOVERY_TIME == 2
TIME_SLOT == 80
WRITE_1_LOW_TIME == 5
WRITE_0_LOW_TIME == 80
RESET_TIME_HIGH == 504
RESET_TIME_LOW == 504
WAIT_HIGH_TIMEOUT == 250
WAIT_HIGH_POLL == 10
LISTEN_POLL == 20
READ_LOW_TIME == 6
READ_SAMPLE_DELAY == 9
READ_SLOT_REST == 55
FAMILY_CODE == 40
MATCH_ROM == 85
CONVERT_TEMP == 68
READ_SCRATCHPAD == 190

DSPL_TEMP_SENSOR_ADDRESS == <<24872, 2916, 43593, 63106>>  \* 0xF682AA490B646128
TEMP_MEASUREMENT_INTERVAL == 5000
CHECKSUM_RETRIES == 3

----------------------------------------------------------------------------
(* The line and the simulated devices. *)

\* The presence pulse of a device: it begins 15 to 60 us after the master
\* releases the line and lasts 60 to 240 us.
PRESENCE_DELAY_MIN == 15
PRESENCE_DELAY_MAX == 60
PRESENCE_LOW_MIN == 60
PRESENCE_LOW_MAX == 240

NoPulse == [at |-> 0, len |-> 0]

\* The address of a device: family code, serial number, five zero bytes and
\* the CRC of these seven bytes.
MkAddress(family, serial) ==
    LET body == <<family, serial, 0, 0, 0, 0, 0>>
    IN  from_le_bytes(body \o <<Checksum(0, body, 1)>>)

GoodAddrs == {MkAddress(FAMILY_CODE, s) : s \in 0..MaxSerial}

\* Devices whose address differs from a good one in one bit: bit 5 (in the
\* family code) or bit 56 (in the CRC byte).
FlippedAddrs == {U64FlipBit(a, k) : a \in GoodAddrs, k \in {5, 56}}

DevicePool == GoodAddrs \cup FlippedAddrs
DeviceSets == {S \in SUBSET DevicePool : Cardinality(S) <= MaxDevices}

\* How long an external fault holds the line low: not at all, for a while,
\* until just after the last poll of wait_for_high, for ever.
LineFaults == {0, 100, 245, 100000}

\* What the line carries after the master's reset pulse ends at time t: a
\* device answers with a presence pulse; an empty bus is silent or carries
\* a noise pulse (a short one between two polls, or a longer one).
PulseChoices(devs, t) ==
    IF devs # {}
    THEN {[at |-> t + PRESENCE_DELAY_MIN, len |-> PRESENCE_LOW_MIN],
          [at |-> t + PRESENCE_DELAY_MAX, len |-> PRESENCE_LOW_MAX]}
    ELSE {NoPulse, [at |-> t + 21, len |-> 10], [at |-> t + 30, len |-> 30]}

\* Something other than the master pulls the line low at time t.
ExternalLow(t) ==
    \/ t < busHeldLowUntil
    \/ pulse.len > 0 /\ pulse.at <= t /\ t < pulse.at + pulse.len

\* gpio::Flex::is_low / is_high on the open-drain pin at time t.
is_low(t) == pin = "low" \/ ExternalLow(t) \/ deviceLow
is_high(t) == ~is_low(t)

\* The byte a device decodes from eight write slots, first slot = bit 0.
DeviceHeard(bits) ==
    IF Len(bits) < 8 THEN -1
    ELSE LET b(n) == bits[n + 1] * Pow2(n)
         IN  b(0) + b(1) + b(2) + b(3) + b(4) + b(5) + b(6) + b(7)

\* The devices that answer a search: all of them, if they heard the command.
Searching(devs, bits) == IF DeviceHeard(bits) = SEARCH_NORMAL THEN devs ELSE {}

\* A device samples a write slot in a window that lasts from 15 us to 60 us
\* after the master began the slot.
SAMPLE_WINDOW_START == 15
SAMPLE_WINDOW_END == 60

\* What a device reads from a write slot in which the master held the line
\* low from fall until rise: 1 if the line is high all through the window,
\* 0 if it is low all through it, and -1 (nothing definite) otherwise.
SlotCarries(fall, rise) ==
    LET window == SAMPLE_WINDOW_START..SAMPLE_WINDOW_END
    IN  IF \A t \in window : rise <= fall + t THEN 1
        ELSE IF \A t \in window : fall + t < rise THEN 0
        ELSE -1

\* The bytes a device decodes from the write slots, eight slots to a byte.
HeardBytes(bits) ==
    [j \in 1..(Len(bits) \div 8) |->
        DeviceHeard(SubSeq(bits, 8 * j - 7, 8 * j))]

\* The bits a device sends for some bytes: byte after byte, each with its
\* least significant bit first.
ToBits(bytes) ==
    [n \in 1..(8 * Len(bytes)) |->
        Bit(bytes[((n - 1) \div 8) + 1], (n - 1) % 8)]

\* Device d was selected and asked for its scratchpad: it heard the
\* match-ROM command, the 64 bits of its own address from bit 0 upward, and
\* the read-scratchpad command.
Addressed(d, bits) ==
    /\ Len(bits) = 80
    /\ DeviceHeard(SubSeq(bits, 1, 8)) = MATCH_ROM
    /\ \A n \in 0..63 : bits[9 + n] = U64Bit(d, n)
    /\ DeviceHeard(SubSeq(bits, 73, 80)) = READ_SCRATCHPAD

\* The operations that end with write_byte(command) as send_command does,
\* and those that go on to read the scratchpad.
CommandOps == {"send_command", "start_temp_measurement"}
ScratchpadOps == {"read_scratchpad", "read_sensor_data"}

\* The bits put on the line in the read slots of read_byte: the bytes of
\* the device that was addressed; on a loopback bus, the bits of the write
\* slots; nothing (the line stays high) when no device answers.
Sending ==
    CASE op = "loopback" -> txBits
      [] op = "read_byte" -> ToBits(memory)
      [] op \in ScratchpadOps ->
            IF \E d \in devices : Addressed(d, txBits) THEN ToBits(memory)
            ELSE <<>>
      [] OTHER -> <<>>

\* A 0 is sent in the next read slot: the line is held low over the sample.
DeviceSendsZero ==
    LET n == Len(rxBits) + 1 IN n <= Len(Sending) /\ Sending[n] = 0

\* The nine bytes a device sends for a raw temperature and a configuration
\* byte, with the power-on alarm and reserved bytes and the CRC of the
\* first eight.
MkScratchpad(raw_lo, raw_hi, config) ==
    LET body == <<raw_lo, raw_hi, 75, 70, config, 255, 12, 16>>
    IN  body \o <<Checksum(0, body, 1)>>

\* The same bytes with the lowest bit of the first one flipped on the line.
Corrupted(bytes) ==
    [bytes EXCEPT ![1] = IF @ % 2 = 0 THEN @ + 1 ELSE @ - 1]

\* What the line can deliver to read_scratchpad: 85 degrees (0x0550) and
\* -0.125 degrees (0xFFFE) at 12 bits, a configuration byte that is no
\* resolution, the register 0x0550 at 9 bits, and each of these corrupted.
SoundScratchpads ==
    {MkScratchpad(80, 5, 127), MkScratchpad(254, 255, 127),
     MkScratchpad(80, 5, 0), MkScratchpad(80, 5, 31)}
ScratchPool == SoundScratchpads \cup {Corrupted(b) : b \in SoundScratchpads}

----------------------------------------------------------------------------
(* OneWireBus::reset and wait_for_high. *)

ResetReturn_retry(res) ==
    IF op = "reset" \/ (res # "Ok" /\ resets >= 2)
    THEN /\ result' = res
         /\ pc' = "done"
         /\ UNCHANGED <<i, byte>>
    ELSE IF res # "Ok"
    THEN /\ pc' = "reset"
         /\ UNCHANGED <<result, i, byte>>
    ELSE /\ pc' = IF op = "find_first_device" THEN "search_cmd" ELSE "match_rom"
         /\ byte' = IF op = "find_first_device" THEN SEARCH_NORMAL ELSE MATCH_ROM
         /\ i' = 0
         /\ UNCHANGED result

ResetReturn_ignore_error(res) ==
    IF op = "reset"
    THEN /\ result' = res
         /\ pc' = "done"
         /\ UNCHANGED <<i, byte>>
    ELSE /\ pc' = IF op = "find_first_device" THEN "search_cmd" ELSE "match_rom"
         /\ byte' = IF op = "find_first_device" THEN SEARCH_NORMAL ELSE MATCH_ROM
         /\ i' = 0
         /\ UNCHANGED result

\* What the caller of reset() does with its result: reset() itself returns
\* it; find_first_device, send_command and read_scratchpad return an error
\* at once (the ? operator) and after Ok go on to write_byte: the search
\* command in find_first_device, the match-ROM command of match_address in
\* the other two.
ResetReturn(res) ==
    IF op = "reset" \/ res # "Ok"
    THEN /\ result' = res
         /\ pc' = "done"
         /\ UNCHANGED <<i, byte>>
    ELSE /\ pc' = IF op = "find_first_device" THEN "search_cmd" ELSE "match_rom"
         /\ byte' = IF op = "find_first_device" THEN SEARCH_NORMAL ELSE MATCH_ROM
         /\ i' = 0
         /\ UNCHANGED result

\* self.pin.set_high(); and entry into wait_for_high.
ResetReleaseBus ==
    /\ pc = "reset"
    /\ pin' = "high"
    /\ instant' = now
    /\ resets' = resets + 1
    /\ pc' = "wait_for_high"
    /\ UNCHANGED <<fixedVars, loopVars, slotVars, result, now, i, byte,
                   devices, unplugged, riseAt, lowCount, start,
                   device_present, pulse, highPolls, taskVars, restVars>>

\* One turn of the loop of wait_for_high.
WaitForHighPoll ==
    /\ pc = "wait_for_high"
    /\ now - instant < WAIT_HIGH_TIMEOUT
    /\ IF is_high(now)
       THEN /\ pc' = "reset_low"
            /\ UNCHANGED <<now, highPolls>>
       ELSE /\ now' = now + WAIT_HIGH_POLL
            /\ highPolls' = highPolls + 1
            /\ UNCHANGED pc
    /\ UNCHANGED <<fixedVars, loopVars, slotVars, result, pin, i, byte,
                   devices, unplugged, riseAt, lowCount, instant, start,
                   device_present, pulse, resets, taskVars, restVars>>

WaitForHighTimeout_fall_through ==
    /\ pc = "wait_for_high"
    /\ now - instant >= WAIT_HIGH_TIMEOUT
    /\ pc' = "reset_low"
    /\ UNCHANGED <<fixedVars, resetVars, loopVars, slotVars, result, now, pin,
                   i, byte, devices, unplugged, riseAt, lowCount, taskVars, restVars>>

\* wait_for_high gives up; reset returns the error (the ? operator).
WaitForHighTimeout ==
    /\ pc = "wait_for_high"
    /\ now - instant >= WAIT_HIGH_TIMEOUT
    /\ ResetReturn("BusNotHighTimeout")
    /\ UNCHANGED <<fixedVars, resetVars, loopVars, slotVars, now, pin,
                   devices, unplugged, riseAt, lowCount, taskVars, restVars>>

\* self.pin.set_low(); delay_micros(RESET_TIME_HIGH): the reset pulse.
ResetDriveLow ==
    /\ pc = "reset_low"
    /\ pin' = "low"
    /\ lowCount' = lowCount + 1
    /\ now' = now + RESET_TIME_HIGH
    /\ pc' = "reset_high"
    /\ UNCHANGED <<fixedVars, resetVars, loopVars, slotVars, result, i, byte,
                   devices, unplugged, riseAt, taskVars, restVars>>

\* self.pin.set_high(); the master starts to listen. The devices, if any,
\* answer the rising edge.
ResetStartListening ==
    /\ pc = "reset_high"
    /\ pin' = "high"
    /\ riseAt' = now
    /\ device_present' = FALSE
    /\ start' = now
    /\ pulse' \in PulseChoices(devices, now)
    /\ pc' = "listen"
    /\ UNCHANGED <<fixedVars, loopVars, slotVars, result, now, i, byte,
                   devices, unplugged, lowCount, instant, highPolls, resets,
                   taskVars, restVars>>

ResetListenPoll_no_latch ==
    /\ pc = "listen"
    /\ now - start < RESET_TIME_LOW
    /\ device_present' = is_low(now)
    /\ now' = now + LISTEN_POLL
    /\ UNCHANGED <<fixedVars, loopVars, slotVars, pc, result, pin, i, byte,
                   devices, unplugged, riseAt, lowCount, instant, start,
                   pulse, highPolls, resets, taskVars, restVars>>

\* One turn of the listening loop of reset.
ResetListenPoll ==
    /\ pc = "listen"
    /\ now - start < RESET_TIME_LOW
    /\ device_present' = IF ~device_present THEN is_low(now) ELSE device_present
    /\ now' = now + LISTEN_POLL
    /\ UNCHANGED <<fixedVars, loopVars, slotVars, pc, result, pin, i, byte,
                   devices, unplugged, riseAt, lowCount, instant, start,
                   pulse, highPolls, resets, taskVars, restVars>>

ResetListenEnd_on_presence ==
    /\ pc = "listen"
    /\ (now - start >= RESET_TIME_LOW \/ device_present)
    /\ ResetReturn(IF device_present THEN "Ok" ELSE "DeviceNotPresent")
    /\ UNCHANGED <<fixedVars, resetVars, loopVars, slotVars, now, pin,
                   devices, unplugged, riseAt, lowCount, taskVars, restVars>>

\* The listening window is over: reset returns.
ResetListenEnd ==
    /\ pc = "listen"
    /\ now - start >= RESET_TIME_LOW
    /\ ResetReturn(IF device_present THEN "Ok" ELSE "DeviceNotPresent")
    /\ UNCHANGED <<fixedVars, resetVars, loopVars, slotVars, now, pin,
                   devices, unplugged, riseAt, lowCount, taskVars, restVars>>

----------------------------------------------------------------------------
(* Bit slots: write_bit and read_bit. *)

bit_value_msb_first(b, n) == Bit(b, 7 - n)

\* write_byte: let bit_value = (byte >> i) & 1 == 1;
bit_value(b, n) == Bit(b, n)

write_bit_set_low_swapped(value, at) ==
    /\ pin' = "low"
    /\ fallAt' = at
    /\ gap' = at - riseAt
    /\ kind' = "write"
    /\ bit' = value
    /\ phase' = "low"
    /\ now' = at + (IF value = 1 THEN WRITE_0_LOW_TIME ELSE WRITE_1_LOW_TIME)
    /\ slots' = slots + 1
    /\ lowCount' = lowCount + 1
    /\ UNCHANGED <<riseAt, sampleAt, slotEnd, deviceLow, txBits, rxBits>>

\* write_bit(value), first half: self.pin.set_low() at time at, and the
\* delay for which the line is held low.
write_bit_set_low(value, at) ==
    /\ pin' = "low"
    /\ fallAt' = at
    /\ gap' = at - riseAt
    /\ kind' = "write"
    /\ bit' = value
    /\ phase' = "low"
    /\ now' = at + (IF value = 1 THEN WRITE_1_LOW_TIME ELSE WRITE_0_LOW_TIME)
    /\ slots' = slots + 1
    /\ lowCount' = lowCount + 1
    /\ UNCHANGED <<riseAt, sampleAt, slotEnd, deviceLow, txBits, rxBits>>

write_bit_set_high_in_one_arm ==
    /\ pin' = IF bit = 1 THEN "high" ELSE pin
    /\ riseAt' = IF bit = 1 THEN now ELSE riseAt
    /\ now' = now + (IF bit = 1 THEN TIME_SLOT - WRITE_1_LOW_TIME
                                ELSE TIME_SLOT - WRITE_0_LOW_TIME)
    /\ slotEnd' = now'
    /\ txBits' = Append(txBits, bit)
    /\ phase' = "none"
    /\ UNCHANGED <<kind, bit, fallAt, sampleAt, gap, deviceLow, rxBits, slots,
                   lowCount>>

\* write_bit, second half: self.pin.set_high(); and the delay for the rest
\* of the time slot (none after a 0). The devices have sampled the slot.
write_bit_set_high ==
    /\ pin' = "high"
    /\ riseAt' = now
    /\ now' = now + (IF bit = 1 THEN TIME_SLOT - WRITE_1_LOW_TIME
                                ELSE TIME_SLOT - WRITE_0_LOW_TIME)
    /\ slotEnd' = now'
    /\ txBits' = Append(txBits, SlotCarries(fallAt, now))
    /\ phase' = "none"
    /\ UNCHANGED <<kind, bit, fallAt, sampleAt, gap, deviceLow, rxBits, slots,
                   lowCount>>

\* read_bit, first part: self.pin.set_low(); delay_micros(6). The falling
\* edge starts the devices: answer tells whether one of them sends a 0.
read_bit_set_low(answer) ==
    /\ pin' = "low"
    /\ fallAt' = now
    /\ gap' = now - riseAt
    /\ kind' = "read"
    /\ phase' = "low"
    /\ deviceLow' = answer
    /\ now' = now + READ_LOW_TIME
    /\ slots' = slots + 1
    /\ lowCount' = lowCount + 1
    /\ UNCHANGED <<bit, riseAt, sampleAt, slotEnd, txBits, rxBits>>

read_bit_set_high_late ==
    /\ pin' = "high"
    /\ riseAt' = now
    /\ now' = now + READ_SAMPLE_DELAY + READ_LOW_TIME
    /\ phase' = "released"
    /\ UNCHANGED <<kind, bit, fallAt, sampleAt, slotEnd, gap, deviceLow,
                   txBits, rxBits, slots, lowCount>>

\* read_bit, second part: self.pin.set_high(); delay_micros(9).
read_bit_set_high ==
    /\ pin' = "high"
    /\ riseAt' = now
    /\ now' = now + READ_SAMPLE_DELAY
    /\ phase' = "released"
    /\ UNCHANGED <<kind, bit, fallAt, sampleAt, slotEnd, gap, deviceLow,
                   txBits, rxBits, slots, lowCount>>

\* read_bit, third part: let read_bit = self.pin.is_high();
\* delay_micros(55). The bit read is left in bit; the device lets go of the
\* line during the rest of the slot.
read_bit_sample ==
    /\ bit' = IF is_high(now) THEN 1 ELSE 0
    /\ sampleAt' = now
    /\ now' = now + READ_SLOT_REST
    /\ slotEnd' = now'
    /\ rxBits' = Append(rxBits, bit')
    /\ deviceLow' = FALSE
    /\ phase' = "none"
    /\ UNCHANGED <<pin, kind, fallAt, riseAt, gap, txBits, slots, lowCount>>

\* The second part of read_bit, wherever it was called from.
ReadBitRelease ==
    /\ phase = "low"
    /\ kind = "read"
    /\ read_bit_set_high
    /\ UNCHANGED <<fixedVars, resetVars, loopVars, pc, result, i, byte,
                   devices, unplugged, taskVars, restVars>>

----------------------------------------------------------------------------
(* write_byte, write_bytes, match_address, send_command, read_byte,        *)
(* read_bytes, and the bus traffic of Ds18b20::read_scratchpad.            *)

\* read_scratchpad: let mut scratchpad = [0; 9];
SCRATCHPAD_LEN == 9

\* The positions at which a write_byte is running.
WriteBytePcs == {"write_byte", "search_cmd", "match_rom", "match_bytes",
                 "command"}
\* The positions at which a read_byte is running.
ReadBytePcs == {"read_byte", "read_bytes"}

\* match_address has returned. It was the operation itself, or send_command
\* goes on with write_byte(command), or read_scratchpad with
\* write_byte(READ_SCRATCHPAD).
MatchAddressReturn ==
    IF op = "match_address"
    THEN /\ pc' = "done"
         /\ result' = "returned"
         /\ i' = i + 1
         /\ UNCHANGED byte
    ELSE /\ pc' = "command"
         /\ byte' = IF op \in ScratchpadOps THEN READ_SCRATCHPAD ELSE command
         /\ i' = 0
         /\ UNCHANGED result

\* write_byte has written its eighth bit and returns to where it was
\* called from.
WriteByteReturn ==
    CASE pc = "search_cmd" ->
            \* find_first_device: let mut address = 0; and the loop begins
            /\ pc' = "read_false"
            /\ address' = U64Zero
            /\ bit_index' = 0
            /\ participating' = Searching(devices, txBits')
            /\ i' = i + 1
            /\ UNCHANGED <<result, byte, false_bit, true_bit, nbytes, acc, buffer,
                           found, output>>
      [] pc = "match_rom" ->
            \* match_address: self.write_bytes(&address.to_le_bytes())
            /\ pc' = "match_bytes"
            /\ nbytes' = 0
            /\ byte' = to_le_bytes(address)[1]
            /\ i' = 0
            /\ UNCHANGED <<result, address, bit_index, false_bit, true_bit,
                           acc, buffer, found, output, participating>>
      [] pc = "match_bytes" ->
            \* write_bytes: for byte in bytes
            /\ nbytes' = nbytes + 1
            /\ IF nbytes' < 8
               THEN /\ byte' = to_le_bytes(address)[nbytes' + 1]
                    /\ i' = 0
                    /\ UNCHANGED <<pc, result>>
               ELSE MatchAddressReturn
            /\ UNCHANGED <<address, bit_index, false_bit, true_bit, acc,
                           buffer, found, output, participating>>
      [] pc = "command" ->
            \* send_command: Ok(()); read_scratchpad: read_bytes
            /\ IF op \in CommandOps
               THEN /\ pc' = "done"
                    /\ result' = "Ok"
                    /\ UNCHANGED <<bit_index, nbytes, acc, buffer>>
               ELSE /\ pc' = "read_bytes"
                    /\ nbytes' = 0
                    /\ acc' = 0
                    /\ bit_index' = 0
                    /\ buffer' = <<>>
                    /\ UNCHANGED result
            /\ i' = i + 1
            /\ UNCHANGED <<byte, address, false_bit, true_bit, found, output,
                           participating>>
      [] pc = "write_byte" ->
            \* write_byte was the operation; on the loopback bus, read_byte
            \* follows
            /\ IF op = "write_byte"
               THEN /\ pc' = "done"
                    /\ result' = "returned"
               ELSE /\ pc' = "read_byte"
                    /\ UNCHANGED result
            /\ i' = i + 1
            /\ UNCHANGED <<byte, loopVars>>

\* One turn of the loop of write_byte, up to the set_low of write_bit: the
\* recovery delay, the bit of this turn, and the line driven low.
WriteByteSlot ==
    /\ pc \in WriteBytePcs
    /\ phase = "none"
    /\ i < 8
    /\ write_bit_set_low(bit_value(byte, i), now + RECOVERY_TIME)
    /\ UNCHANGED <<fixedVars, resetVars, loopVars, pc, result, i, byte,
                   devices, unplugged, taskVars, restVars>>

\* The rest of the turn: write_bit releases the line and waits out the
\* slot; after the eighth bit write_byte returns.
WriteByteRelease ==
    /\ pc \in WriteBytePcs
    /\ phase = "low"
    /\ write_bit_set_high
    /\ IF i + 1 < 8
       THEN /\ i' = i + 1
            /\ UNCHANGED <<pc, result, byte, loopVars>>
       ELSE WriteByteReturn
    /\ UNCHANGED <<fixedVars, resetVars, devices, unplugged, taskVars, restVars>>

accumulate_msb_first(a, n, b) ==
    IF b = 1 THEN (IF Bit(a, 7 - n) = 1 THEN a ELSE a + Pow2(7 - n)) ELSE a

\* read_byte: if self.read_bit() { byte_accumulator | (1 << bit_index) }
\* else { byte_accumulator }
accumulate(a, n, b) ==
    IF b = 1 THEN (IF Bit(a, n) = 1 THEN a ELSE a + Pow2(n)) ELSE a

\* read_byte returns value to where it was called from: it was the
\* operation itself, or read_bytes stores it in the buffer and, after the
\* ninth byte, read_scratchpad goes on to the CRC.
ReadByteReturn(value) ==
    IF pc = "read_byte"
    THEN /\ acc' = value
         /\ bit_index' = bit_index + 1
         /\ pc' = "done"
         /\ result' = "returned"
         /\ UNCHANGED <<nbytes, buffer>>
    ELSE /\ buffer' = Append(buffer, value)
         /\ nbytes' = nbytes + 1
         /\ IF nbytes' < SCRATCHPAD_LEN
            THEN /\ acc' = 0
                 /\ bit_index' = 0
                 /\ UNCHANGED pc
            ELSE /\ acc' = value
                 /\ bit_index' = bit_index + 1
                 /\ pc' = "check_crc"
         /\ UNCHANGED result

\* One turn of the fold of read_byte, up to the set_low of read_bit.
ReadByteSlot ==
    /\ pc \in ReadBytePcs
    /\ phase = "none"
    /\ bit_index < 8
    /\ read_bit_set_low(DeviceSendsZero)
    /\ UNCHANGED <<fixedVars, resetVars, loopVars, pc, result, i, byte,
                   devices, unplugged, taskVars, restVars>>

\* The end of the turn: the line is sampled and the bit goes into the
\* accumulator at bit_index; after the eighth bit read_byte returns.
ReadByteSample ==
    /\ pc \in ReadBytePcs
    /\ phase = "released"
    /\ read_bit_sample
    /\ LET value == accumulate(acc, bit_index, bit') IN
         IF bit_index + 1 < 8
         THEN /\ acc' = value
              /\ bit_index' = bit_index + 1
              /\ UNCHANGED <<pc, result, nbytes, buffer>>
         ELSE ReadByteReturn(value)
    /\ UNCHANGED <<fixedVars, resetVars, address, false_bit, true_bit, found, output,
                   participating, i, byte, devices, unplugged, taskVars, restVars>>

ScratchpadValidate_resolution_first ==
    /\ pc = "check_crc"
    /\ LET crc == check_crc8(buffer) IN
         IF op = "read_sensor_data"
            /\ buffer[5] \notin {31, 63, 95, 127}
         THEN /\ result' = "InvalidResolution"
              /\ pc' = "done"
         ELSE IF op = "read_sensor_data" /\ crc = "Ok"
         THEN /\ pc' = "decode"
              /\ UNCHANGED result
         ELSE /\ result' = crc
              /\ pc' = "done"
    /\ UNCHANGED <<fixedVars, resetVars, loopVars, slotVars, now, pin, i,
                   byte, devices, unplugged, riseAt, lowCount, taskVars, restVars>>

\* read_scratchpad: OneWireBus::check_crc8(&scratchpad)?; Ok(scratchpad).
\* It was the operation itself, or read_sensor_data returns the error (the
\* ? operator) and after Ok goes on to decode the bytes.
ScratchpadValidate ==
    /\ pc = "check_crc"
    /\ LET crc == check_crc8(buffer) IN
         IF op = "read_sensor_data" /\ crc = "Ok"
         THEN /\ pc' = "decode"
              /\ UNCHANGED result
         ELSE /\ result' = crc
              /\ pc' = "done"
    /\ UNCHANGED <<fixedVars, resetVars, loopVars, slotVars, now, pin, i,
                   byte, devices, unplugged, riseAt, lowCount, taskVars, restVars>>

----------------------------------------------------------------------------
(* OneWireBus::find_first_device. *)

chosen_bit_high_branch(fb, tb) == IF tb THEN 1 ELSE 0
chosen_bit_swapped(fb, tb) == IF fb /\ ~tb THEN 1 ELSE 0

\* The match on (false_bit, true_bit): 1 only when every device shows a 1;
\* 0 when all show 0 and also at a discrepancy.
chosen_bit(fb, tb) == IF ~fb /\ tb THEN 1 ELSE 0

\* let false_bit = !self.read_bit(); up to the set_low. The devices send
\* their address bit: those whose bit is 0 pull the line low.
SearchReadFalse ==
    /\ pc = "read_false"
    /\ phase = "none"
    /\ bit_index < 64
    /\ read_bit_set_low(\E d \in participating : U64Bit(d, bit_index) = 0)
    /\ UNCHANGED <<fixedVars, resetVars, loopVars, pc, result, i, byte,
                   devices, unplugged, taskVars, restVars>>

\* The first slot is sampled: false_bit = !read_bit().
SearchFalseBit ==
    /\ pc = "read_false"
    /\ phase = "released"
    /\ read_bit_sample
    /\ false_bit' = (bit' = 0)
    /\ pc' = "read_true"
    /\ UNCHANGED <<fixedVars, resetVars, address, bit_index, true_bit, nbytes, acc,
                   buffer, found, output, participating, result, i, byte, devices,
                   unplugged, taskVars, restVars>>

\* let true_bit = !self.read_bit(); up to the set_low. The devices send the
\* complement of their address bit: those whose bit is 1 pull the line low.
SearchReadTrue ==
    /\ pc = "read_true"
    /\ phase = "none"
    /\ read_bit_set_low(\E d \in participating : U64Bit(d, bit_index) = 1)
    /\ UNCHANGED <<fixedVars, resetVars, loopVars, pc, result, i, byte,
                   devices, unplugged, taskVars, restVars>>

\* The second slot is sampled: true_bit = !read_bit().
SearchTrueBit ==
    /\ pc = "read_true"
    /\ phase = "released"
    /\ read_bit_sample
    /\ true_bit' = (bit' = 0)
    /\ pc' = "choose"
    /\ UNCHANGED <<fixedVars, resetVars, address, bit_index, false_bit, nbytes,
                   acc, buffer, found, output, participating, result, i, byte,
                   devices, unplugged, taskVars, restVars>>

SearchNoResponse_carry_on ==
    /\ pc = "choose"
    /\ ~false_bit /\ ~true_bit
    /\ write_bit_set_low(0, now)
    /\ pc' = "write_chosen"
    /\ UNCHANGED <<fixedVars, resetVars, loopVars, result, i, byte, devices,
                   unplugged, taskVars, restVars>>

\* (false, false): return Err(NoResponseToSearch).
SearchNoResponse ==
    /\ pc = "choose"
    /\ ~false_bit /\ ~true_bit
    /\ result' = "NoResponseToSearch"
    /\ pc' = "done"
    /\ UNCHANGED <<fixedVars, resetVars, loopVars, slotVars, now, pin, i,
                   byte, devices, unplugged, riseAt, lowCount, taskVars, restVars>>

SearchWriteChosen_msb_first ==
    /\ pc = "choose"
    /\ false_bit \/ true_bit
    /\ LET chosen == chosen_bit(false_bit, true_bit) IN
         /\ address' = IF chosen = 1 THEN U64SetBit(address, 63 - bit_index)
                                     ELSE U64ClearBit(address, 63 - bit_index)
         /\ participating' = {d \in participating : U64Bit(d, bit_index) = chosen}
         /\ write_bit_set_low(chosen, now)
    /\ pc' = "write_chosen"
    /\ UNCHANGED <<fixedVars, resetVars, bit_index, false_bit, true_bit, nbytes,
                   acc, buffer, found, output, result, i, byte, devices, unplugged,
                   taskVars, restVars>>

\* The other three arms: the chosen bit goes into the address at bit_index
\* and write_bit(chosen_bit) begins, with no delay before it; the devices
\* whose bit differs drop out.
SearchWriteChosen ==
    /\ pc = "choose"
    /\ false_bit \/ true_bit
    /\ LET chosen == chosen_bit(false_bit, true_bit) IN
         /\ address' = IF chosen = 1 THEN U64SetBit(address, bit_index)
                                     ELSE U64ClearBit(address, bit_index)
         /\ participating' = {d \in participating : U64Bit(d, bit_index) = chosen}
         /\ write_bit_set_low(chosen, now)
    /\ pc' = "write_chosen"
    /\ UNCHANGED <<fixedVars, resetVars, bit_index, false_bit, true_bit, nbytes,
                   acc, buffer, found, output, result, i, byte, devices, unplugged,
                   taskVars, restVars>>

\* write_bit(chosen_bit) releases the line and waits out the slot; the loop
\* goes on to the next bit position, at once.
SearchWriteRelease ==
    /\ pc = "write_chosen"
    /\ phase = "low"
    /\ write_bit_set_high
    /\ bit_index' = bit_index + 1
    /\ pc' = IF bit_index' = 64 THEN "validate" ELSE "read_false"
    /\ UNCHANGED <<fixedVars, resetVars, address, false_bit, true_bit, nbytes, acc,
                   buffer, found, output, participating, result, i, byte, devices,
                   unplugged, taskVars, restVars>>

\* Self::check_crc8(&address.to_le_bytes())?; Ok(address)
SearchValidate ==
    /\ pc = "validate"
    /\ result' = check_crc8(to_le_bytes(address))
    /\ found' = IF result' = "Ok" THEN address ELSE found
    /\ pc' = "done"
    /\ UNCHANGED <<fixedVars, resetVars, address, bit_index, false_bit,
                   true_bit, nbytes, acc, buffer, output, participating,
                   slotVars, now, pin, i, byte, devices, unplugged, riseAt,
                   lowCount, taskVars, restVars>>

\* The devices are removed from the bus, between two slots of a running
\* search.
Unplug ==
    /\ pc \in {"read_false", "read_true", "choose"}
    /\ phase = "none"
    /\ ~unplugged
    /\ devices # {}
    /\ devices' = {}
    /\ participating' = {}
    /\ unplugged' = TRUE
    /\ UNCHANGED <<fixedVars, resetVars, address, bit_index, false_bit,
                   true_bit, nbytes, acc, buffer, found, output, slotVars, pc, result, now,
                   pin, i, byte, riseAt, lowCount, taskVars, restVars>>

----------------------------------------------------------------------------
(* The DS18B20 driver (ds18b20.rs). *)

Ok(v) == [kind |-> "Ok", value |-> v]
Err(e) == [kind |-> "Err", error |-> e]

\* The results a reset() can have.
ResetOutcomes == {"Ok", "BusNotHighTimeout", "DeviceNotPresent"}

Ds18b20_new_crc_checked(addr) ==
    IF to_le_bytes(addr)[1] = FAMILY_CODE /\ check_crc8(to_le_bytes(addr)) = "Ok"
    THEN Ok([address |-> addr])
    ELSE Err("FamilyCodeMismatch")

Ds18b20_new_unchecked(addr) == Ok([address |-> addr])

\* Ds18b20::new: the low byte of the address must be the family code.
Ds18b20_new(addr) ==
    IF to_le_bytes(addr)[1] = FAMILY_CODE
    THEN Ok([address |-> addr])
    ELSE Err("FamilyCodeMismatch")

\* start_temp_measurement = send_command(CONVERT_TEMP, address): the error
\* of reset, if any, and Ok(()) otherwise.
start_temp_measurement(resetResult) ==
    IF resetResult # "Ok" THEN Err(resetResult) ELSE Ok("unit")

Resolution_try_from_masked(value) ==
    CASE value % 128 = 31  -> Ok("Bits9")
      [] value % 128 = 63  -> Ok("Bits10")
      [] value % 128 = 95  -> Ok("Bits11")
      [] value % 128 = 127 -> Ok("Bits12")
      [] OTHER             -> Err("InvalidResolution")

\* Resolution::try_from(u8)
Resolution_try_from(value) ==
    CASE value = 31  -> Ok("Bits9")
      [] value = 63  -> Ok("Bits10")
      [] value = 95  -> Ok("Bits11")
      [] value = 127 -> Ok("Bits12")
      [] OTHER       -> Err("InvalidResolution")

max_measurement_time_halved(resolution) ==
    CASE resolution = "Bits9"  -> 750 \div 8
      [] resolution = "Bits10" -> 750 \div 4
      [] resolution = "Bits11" -> 750 \div 2
      [] resolution = "Bits12" -> 750

\* Resolution::max_measurement_time, in milliseconds.
max_measurement_time(resolution) ==
    CASE resolution = "Bits9"  -> 94
      [] resolution = "Bits10" -> 188
      [] resolution = "Bits11" -> 375
      [] resolution = "Bits12" -> 750

i16_from_le_bytes_unsigned(lo, hi) == lo + 256 * hi

\* i16::from_le_bytes and i8::from_le_bytes
i16_from_le_bytes(lo, hi) ==
    LET u == lo + 256 * hi IN IF u >= 32768 THEN u - 65536 ELSE u
i8_from_le_bytes(b) == IF b >= 128 THEN b - 256 ELSE b

read_scratchpad_unchecked(resetResult, bytes) ==
    IF resetResult # "Ok" THEN Err(resetResult) ELSE Ok(bytes)

\* read_scratchpad: reset, match_address, the command, nine bytes read
\* (bytes is what the line delivered), and the CRC over all nine.
read_scratchpad(resetResult, bytes) ==
    IF resetResult # "Ok" THEN Err(resetResult)
    ELSE IF check_crc8(bytes) # "Ok" THEN Err("ChecksumFailed")
    ELSE Ok(bytes)

\* read_sensor_data. The temperature, raw / divisor, is held in sixteenths
\* of a degree: raw * (16 / divisor).
read_sensor_data(resetResult, bytes) ==
    LET scratchpad == read_scratchpad(resetResult, bytes) IN
    IF scratchpad.kind = "Err" THEN scratchpad
    ELSE LET resolution == Resolution_try_from(scratchpad.value[5]) IN
         IF resolution.kind = "Err" THEN resolution
         ELSE LET raw_temp == i16_from_le_bytes(scratchpad.value[1],
                                                scratchpad.value[2])
                  sixteenths ==
                      CASE resolution.value = "Bits12" -> raw_temp
                        [] resolution.value = "Bits11" -> raw_temp * 2
                        [] resolution.value = "Bits10" -> raw_temp * 4
                        [] resolution.value = "Bits9"  -> raw_temp * 8
              IN  Ok([temperature |-> sixteenths,
                      resolution |-> resolution.value,
                      alarm_temp_high |-> i8_from_le_bytes(scratchpad.value[3]),
                      alarm_temp_low |-> i8_from_le_bytes(scratchpad.value[4])])

----------------------------------------------------------------------------
(* The functions of the driver and check_crc8, called on their own. *)

\* The string kept in result for a Result of the driver.
ResultOf(r) == IF r.kind = "Ok" THEN "Ok" ELSE r.error

\* read_sensor_data after let scratchpad = self.read_scratchpad()?; gave
\* it the nine bytes: the resolution, the temperature and the alarms.
SensorDataDecode ==
    /\ pc = "decode"
    /\ LET decoded == read_sensor_data("Ok", buffer) IN
         /\ output' = decoded
         /\ result' = ResultOf(decoded)
    /\ pc' = "done"
    /\ UNCHANGED <<fixedVars, resetVars, address, bit_index, false_bit,
                   true_bit, nbytes, acc, buffer, found, participating,
                   slotVars, now, pin, i, byte, devices, unplugged, riseAt,
                   lowCount, taskVars, restVars>>

\* OneWireBus::check_crc8(data)
CheckCrc8 ==
    /\ pc = "check_crc8"
    /\ result' = check_crc8(memory)
    /\ pc' = "done"
    /\ UNCHANGED <<fixedVars, resetVars, loopVars, slotVars, now, pin, i,
                   byte, devices, unplugged, riseAt, lowCount, taskVars, restVars>>

\* Ds18b20::new(address, bus)
DriverNew ==
    /\ pc = "new"
    /\ LET made == Ds18b20_new(address) IN
         /\ output' = made
         /\ result' = ResultOf(made)
    /\ pc' = "done"
    /\ UNCHANGED <<fixedVars, resetVars, address, bit_index, false_bit,
                   true_bit, nbytes, acc, buffer, found, participating,
                   slotVars, now, pin, i, byte, devices, unplugged, riseAt,
                   lowCount, taskVars, restVars>>

\* Resolution::try_from(byte)
ResolutionDecode ==
    /\ pc = "try_from"
    /\ LET resolution == Resolution_try_from(byte) IN
         /\ output' = resolution
         /\ IF resolution.kind = "Ok"
            THEN /\ pc' = "max_measurement_time"
                 /\ UNCHANGED result
            ELSE /\ pc' = "done"
                 /\ result' = ResultOf(resolution)
    /\ UNCHANGED <<fixedVars, resetVars, address, bit_index, false_bit,
                   true_bit, nbytes, acc, buffer, found, participating,
                   slotVars, now, pin, i, byte, devices, unplugged, riseAt,
                   lowCount, taskVars, restVars>>

\* resolution.max_measurement_time(), of the resolution just decoded
MeasurementTime ==
    /\ pc = "max_measurement_time"
    /\ output' = Ok([resolution |-> output.value,
                     max_measurement_time |->
                         max_measurement_time(output.value)])
    /\ result' = "Ok"
    /\ pc' = "done"
    /\ UNCHANGED <<fixedVars, resetVars, address, bit_index, false_bit,
                   true_bit, nbytes, acc, buffer, found, participating,
                   slotVars, now, pin, i, byte, devices, unplugged, riseAt,
                   lowCount, taskVars, restVars>>

----------------------------------------------------------------------------
(* The bus specification. *)

NoAddress == <<-1, -1, -1, -1>>
NoSensor == [address |-> NoAddress]
NoReading == [kind |-> "none"]

\* read_scratchpad: let mut scratchpad = [0; 9];
EmptyScratchpad == [j \in 1..SCRATCHPAD_LEN |-> 0]

\* memlog.rs: const DISCARD_ERROR
DISCARD_ERROR == "log discarded: too large for storage"

\* LogStorage::with_capacity
with_capacity(room) == [records |-> <<>>, utilization |-> 0, capacity |-> room]

NoCall == [fn |-> "none"]

\* static GLOBAL_LOGGER = Mutex::new(LogStorage::with_capacity(
\* DISCARD_ERROR.len())), with no call made on it.
LogIdle ==
    /\ GLOBAL_LOGGER = with_capacity(Len(DISCARD_ERROR))
    /\ logpc = "static"
    /\ logged = 0
    /\ logCall = NoCall

\* Readings sent to the watch.
MaxReadings == 3

\* task/fan_duty.rs: const INITIAL_FAN_DUTY and the constants of mod fan_pid.
\* KI_GAIN is -0.2, held in tenths.
INITIAL_FAN_DUTY == 100
SETPOINT_TEMP_C == 70
PID_SYMMETRIC_LIMIT == 50
FAN_DUTY_OFFSET == 50
KP_GAIN == -2
KI_GAIN_TENTHS == -2
P_TERM_CONTRIBUTION_LIMIT == 40
I_TERM_CONTRIBUTION_LIMIT == 40

\* The terms of the controller are held in 1/160 of a percent, in which
\* a temperature in sixteenths of a degree times a gain in tenths is whole.
PidUnit == 160

\* The receivers made from the watch (init::<3>): one for each task.
Receivers == {"fan_temp_control", "httpd", "serial_console"}

\* What the sampling task can publish: 60 and 85 degrees, and an error.
PublishedTemperatures ==
    {Ok(960), Ok(1360), Err("DeviceNotPresent")}

\* The pid crate's clamp of a term to [-limit, limit].
apply_limit(limit, value) ==
    IF value > limit THEN limit ELSE IF value < -limit THEN -limit ELSE value

\* FanPidController::new: gains and limits are the constants; nothing
\* measured yet and an integral term of zero.
FanPidController_new == [integral_term |-> 0, prev_measurement |-> "None"]

\* FanPidController::update(current_temp_c): the next state of the
\* controller and the duty it returns, control_signal.output +
\* FAN_DUTY_OFFSET. There is no derivative gain.
FanPidController_update(controller, sixteenths) ==
    LET error == (SETPOINT_TEMP_C * 16 - sixteenths) * 10
        p == apply_limit(P_TERM_CONTRIBUTION_LIMIT * PidUnit, error * KP_GAIN)
        integral == apply_limit(I_TERM_CONTRIBUTION_LIMIT * PidUnit,
                                controller.integral_term
                                + (error * KI_GAIN_TENTHS) \div 10)
        control == apply_limit(PID_SYMMETRIC_LIMIT * PidUnit, p + integral)
    IN  [controller |-> [integral_term |-> integral,
                         prev_measurement |-> sixteenths],
         duty |-> control + FAN_DUTY_OFFSET * PidUnit]

\* libm::roundf(new_duty_cycle) as u8: to the nearest whole number, halves
\* away from zero; the cast saturates at 0 and 255.
round_as_u8(value) ==
    LET rounded == IF value >= 0
                   THEN (2 * value + PidUnit) \div (2 * PidUnit)
                   ELSE -((2 * (-value) + PidUnit) \div (2 * PidUnit))
    IN  IF rounded < 0 THEN 0 ELSE IF rounded > 255 THEN 255 ELSE rounded

\* No value has been sent to the fan-duty watch.
NoDuty == "None"

\* The watches as main makes them, the receivers having read nothing, the
\* controller new and the PWM channel at its configured duty.
ConsumersIdle ==
    /\ history = <<>>
    /\ at_id = [c \in Receivers |-> 0]
    /\ received = [c \in Receivers |-> <<>>]
    /\ pid_controller = FanPidController_new
    /\ fanduty = NoDuty
    /\ dutySent = 0
    /\ pwm = INITIAL_FAN_DUTY
    /\ pwmAt = 0

\* task/pin_control.rs: const CHANNEL_BACKLOG (task/buzzer.rs has the same).
CHANNEL_BACKLOG == 5
\* task/case_button.rs: BUTTON_HELD_DURATION_MIN and _MAX, in milliseconds.
BUTTON_HELD_DURATION_MIN == 500
BUTTON_HELD_DURATION_MAX == 1500

\* state.rs: enum State
States == {"Standby", "PoweringOn", "DisplayOn", "PoweringOff"}

\* No power function is being called.
NoPowerCall == [fn |-> "none", step |-> 0, call |-> 0]
NoSetterCall == [fn |-> "none", call |-> 0]
\* pin_control waits in pincontrol_channel.receive(): it holds no button.
Receiving == [message |-> [kind |-> "none"], from |-> <<"none", 0>>]

\* The output pins as main configures them: the power button is active
\* high, the other buttons are active low, both MOSFET gates are low.
InitialLevels ==
    [pin_button_power |-> "low", pin_button_menu |-> "high",
     pin_button_back |-> "high", pin_button_down |-> "high",
     pin_button_up |-> "high", pin_power_display |-> "low",
     pin_power_fan |-> "low"]

\* SharedState::new_standby(), empty channels, every task at the top of its
\* loop, except that the case-button task is in the place given.
PowerIdle(caseButton) ==
    /\ state = "Standby"
    /\ pincontrol_channel = <<>>
    /\ buzzer_channel = <<>>
    /\ fpc = NoPowerCall
    /\ fresult = "none"
    /\ setterCall = NoSetterCall
    /\ cbpc = caseButton
    /\ pinctl = Receiving
    /\ pin_levels = InitialLevels
    /\ pinlog = <<>>
    /\ callsMade = 0
    /\ presses = 0
    /\ otherSends = 0
    /\ ignored = 0

\* Nothing outside the bus engine and the sampling task runs.
RestIdle == LogIdle /\ ConsumersIdle /\ PowerIdle("off")

TaskOff ==
    /\ tpc = "off"
    /\ configured = NoAddress
    /\ sensor = NoSensor
    /\ retries = 0
    /\ reading = NoReading
    /\ attempts = 0
    /\ crcFailures = 0
    /\ scratch = EmptyScratchpad
    /\ watch = NoReading
    /\ published = 0
    /\ cycles = 0
    /\ clock = 0
    /\ startedAt = -1
    /\ seen = NoReading

\* The operations of the bus engine, the bus traffic of read_scratchpad,
\* and write_byte followed by read_byte on a loopback bus.
BusOps == {"reset", "find_first_device", "send_command", "match_address",
           "write_byte", "read_byte", "read_scratchpad", "loopback"}

\* The operations that the bus engine and the driver make of bit slots.
EngineOps == BusOps \ {"loopback"}

\* The functions of the driver that use the bus, run in full, and the
\* functions that use none: check_crc8, Ds18b20::new, and
\* Resolution::try_from followed by max_measurement_time.
DriverOps == {"start_temp_measurement", "read_sensor_data"}
PureOps == {"check_crc8", "new", "resolution"}
AllOps == BusOps \cup DriverOps \cup PureOps

\* The arguments the operations are run with.
Bytes == 0..255
Targets == {DSPL_TEMP_SENSOR_ADDRESS, MkAddress(FAMILY_CODE, 1)}
Commands == {CONVERT_TEMP, READ_SCRATCHPAD}

\* The raw temperature registers, low byte first, and the configuration
\* bytes of the scratchpads that read_sensor_data is given: 85, -0.125,
\* 25.0625, 0 and -25.0625 degrees at 12 bits, the least and the greatest
\* register; the four resolutions and a byte that is none.
RawRegisters == {<<80, 5>>, <<254, 255>>, <<145, 1>>, <<0, 0>>, <<111, 254>>,
                 <<0, 128>>, <<255, 127>>}
ConfigBytes == {31, 63, 95, 127, 0}
SensorPool ==
    {MkScratchpad(raw[1], raw[2], config) :
         raw \in RawRegisters, config \in ConfigBytes}

\* A byte sequence with one of its bits flipped: bit n % 8 of byte n \div 8.
FlipBit(bytes, n) ==
    [bytes EXCEPT ![(n \div 8) + 1] =
        IF Bit(@, n % 8) = 1 THEN @ - Pow2(n % 8) ELSE @ + Pow2(n % 8)]

\* A byte sequence followed by its CRC.
WithCrc(body) == body \o <<Checksum(0, body, 1)>>

\* What check_crc8 is given: sequences of up to MaxBody bytes, the digits
\* "123456789" and the scratchpads, each followed by its CRC; the address
\* of the firmware's sensor; and every scratchpad with one bit flipped.
MaxBody == 2
BodyBytes == {0, 1, 128, 255}
CrcBodies ==
    {<<>>} \cup UNION {[1..n -> BodyBytes] : n \in 1..MaxBody}
           \cup {<<49, 50, 51, 52, 53, 54, 55, 56, 57>>}
CrcInputs ==
    {WithCrc(body) : body \in CrcBodies}
        \cup {to_le_bytes(DSPL_TEMP_SENSOR_ADDRESS)}
        \cup SoundScratchpads
        \cup {FlipBit(pad, n) : pad \in SoundScratchpads,
                                n \in 0..(8 * SCRATCHPAD_LEN - 1)}

\* OneWireBus::new leaves the pin released; nothing has happened yet.
BusNew ==
    /\ result = "none"
    /\ found = NoAddress
    /\ output = NoReading
    /\ now = 0
    /\ pin = "high"
    /\ instant = 0
    /\ start = 0
    /\ device_present = FALSE
    /\ bit_index = 0
    /\ false_bit = FALSE
    /\ true_bit = FALSE
    /\ i = 0
    /\ nbytes = 0
    /\ acc = 0
    /\ buffer = <<>>
    /\ phase = "none"
    /\ participating = {}
    /\ pulse = NoPulse
    /\ unplugged = FALSE
    /\ deviceLow = FALSE
    /\ kind = "none"
    /\ bit = 0
    /\ fallAt = 0
    /\ riseAt = 0
    /\ sampleAt = 0
    /\ slotEnd = 0
    /\ gap = 0
    /\ txBits = <<>>
    /\ rxBits = <<>>
    /\ slots = 0
    /\ lowCount = 0
    /\ highPolls = 0
    /\ resets = 0

\* One operation is run on a new bus, with its arguments and with the
\* devices and the line faults it meets.
Init ==
    /\ BusNew
    /\ TaskOff
    /\ RestIdle
    /\ op \in AllOps
    /\ \/ /\ op \in {"reset", "find_first_device"}
          /\ pc = "reset"
          /\ devices \in DeviceSets
          /\ busHeldLowUntil \in LineFaults
          /\ address = U64Zero /\ byte = 0 /\ command = 0 /\ memory = <<>>
       \/ /\ op = "send_command"
          /\ pc = "reset"
          /\ command \in Commands
          /\ address \in Targets
          /\ devices \in {{}, {address}}
          /\ busHeldLowUntil \in LineFaults
          /\ byte = 0 /\ memory = <<>>
       \/ /\ op = "read_scratchpad"
          /\ pc = "reset"
          /\ address = DSPL_TEMP_SENSOR_ADDRESS
          /\ \/ devices = {address} /\ memory \in ScratchPool
             \/ /\ devices \in {{}, {MkAddress(FAMILY_CODE, 1)}}
                /\ memory = MkScratchpad(80, 5, 127)
          /\ busHeldLowUntil \in LineFaults
          /\ byte = 0 /\ command = 0
       \/ /\ op = "start_temp_measurement"
          /\ pc = "reset"
          /\ command = CONVERT_TEMP
          /\ address = DSPL_TEMP_SENSOR_ADDRESS
          /\ devices \in {{}, {address}}
          /\ busHeldLowUntil \in LineFaults
          /\ byte = 0 /\ memory = <<>>
       \/ /\ op = "read_sensor_data"
          /\ pc = "reset"
          /\ address = DSPL_TEMP_SENSOR_ADDRESS
          /\ \/ /\ devices = {address}
                /\ memory \in SensorPool
                             \cup {Corrupted(MkScratchpad(80, 5, 127)),
                                   Corrupted(MkScratchpad(80, 5, 0))}
                /\ busHeldLowUntil = 0
             \/ /\ devices \in {{}, {address}}
                /\ memory = MkScratchpad(80, 5, 127)
                /\ busHeldLowUntil \in LineFaults
          /\ byte = 0 /\ command = 0
       \/ /\ op = "check_crc8"
          /\ pc = "check_crc8"
          /\ memory \in CrcInputs
          /\ devices = {} /\ busHeldLowUntil = 0
          /\ address = U64Zero /\ byte = 0 /\ command = 0
       \/ /\ op = "new"
          /\ pc = "new"
          /\ address \in DevicePool \cup {DSPL_TEMP_SENSOR_ADDRESS, U64Zero}
          /\ devices = {} /\ busHeldLowUntil = 0
          /\ byte = 0 /\ command = 0 /\ memory = <<>>
       \/ /\ op = "resolution"
          /\ pc = "try_from"
          /\ byte \in Bytes
          /\ devices = {} /\ busHeldLowUntil = 0
          /\ address = U64Zero /\ command = 0 /\ memory = <<>>
       \/ /\ op = "match_address"
          /\ pc = "match_rom"
          /\ address \in Targets
          /\ byte = MATCH_ROM
          /\ devices = {} /\ busHeldLowUntil = 0
          /\ command = 0 /\ memory = <<>>
       \/ /\ op \in {"write_byte", "loopback"}
          /\ pc = "write_byte"
          /\ byte \in Bytes
          /\ devices = {} /\ busHeldLowUntil = 0
          /\ address = U64Zero /\ command = 0 /\ memory = <<>>
       \/ /\ op = "read_byte"
          /\ pc = "read_byte"
          /\ memory \in {<<b>> : b \in Bytes}
          /\ devices = {} /\ busHeldLowUntil = 0
          /\ address = U64Zero /\ byte = 0 /\ command = 0

Next ==
    \/ ResetReleaseBus
    \/ WaitForHighPoll
    \/ WaitForHighTimeout
    \/ ResetDriveLow
    \/ ResetStartListening
    \/ ResetListenPoll
    \/ ResetListenEnd
    \/ WriteByteSlot
    \/ WriteByteRelease
    \/ ReadByteSlot
    \/ ReadBitRelease
    \/ ReadByteSample
    \/ ScratchpadValidate
    \/ SensorDataDecode
    \/ CheckCrc8
    \/ DriverNew
    \/ ResolutionDecode
    \/ MeasurementTime
    \/ SearchReadFalse
    \/ SearchFalseBit
    \/ SearchReadTrue
    \/ SearchTrueBit
    \/ SearchNoResponse
    \/ SearchWriteChosen
    \/ SearchWriteRelease
    \/ SearchValidate
    \/ Unplug

Spec == Init /\ [][Next]_vars

----------------------------------------------------------------------------
(* The temp_sensor task (task/temp_sensor.rs). *)

\* The addresses the task may be configured with: the one of the firmware,
\* the same with a bit of its CRC byte flipped, and the same with a bit of
\* its family code flipped.
ConfiguredAddresses ==
    {DSPL_TEMP_SENSOR_ADDRESS,
     U64FlipBit(DSPL_TEMP_SENSOR_ADDRESS, 56),
     U64FlipBit(DSPL_TEMP_SENSOR_ADDRESS, 5)}

ShouldRetry_power_on_value(r, n) ==
    /\ \/ r = Err("ChecksumFailed")
       \/ r.kind = "Ok" /\ r.value.temperature = 85 * 16
    /\ n < CHECKSUM_RETRIES

ShouldRetry_off_by_one(r, n) ==
    r = Err("ChecksumFailed") /\ n <= CHECKSUM_RETRIES
ShouldRetry_any_error(r, n) ==
    r.kind = "Err" /\ n < CHECKSUM_RETRIES

\* The first arm of the match on the reading:
\* Err(OneWireError(ChecksumFailed)) if retries < CHECKSUM_RETRIES.
ShouldRetry(r, n) ==
    r = Err("ChecksumFailed") /\ n < CHECKSUM_RETRIES

\* sensor_reading.map(|data| data.temperature)
TemperatureOf(r) ==
    IF r.kind = "Ok" THEN Ok(r.value.temperature) ELSE r

\* OneWireBus::new and Ds18b20::new(address, bus).unwrap().
TaskStart ==
    /\ tpc = "new"
    /\ LET made == Ds18b20_new(configured) IN
         IF made.kind = "Ok"
         THEN /\ sensor' = made.value
              /\ tpc' = "interval"
         ELSE /\ tpc' = "panicked"
              /\ UNCHANGED sensor
    /\ UNCHANGED <<configured, startedAt, seen, retries, reading, attempts, crcFailures,
                   scratch, watch, published, cycles, clock, busVars, restVars>>

IntervalElapsed_keeps_retries ==
    /\ tpc = "interval"
    /\ cycles < MaxCycles
    /\ clock' = clock + TEMP_MEASUREMENT_INTERVAL
    /\ attempts' = 0
    /\ crcFailures' = 0
    /\ published' = 0
    /\ reading' = NoReading
    /\ startedAt' = -1
    /\ tpc' = "start"
    /\ UNCHANGED <<configured, seen, sensor, retries, scratch, watch, cycles,
                   busVars, restVars>>

\* Timer::after(TEMP_MEASUREMENT_INTERVAL).await; let mut retries = 0;
IntervalElapsed ==
    /\ tpc = "interval"
    /\ cycles < MaxCycles
    /\ clock' = clock + TEMP_MEASUREMENT_INTERVAL
    /\ retries' = 0
    /\ attempts' = 0
    /\ crcFailures' = 0
    /\ published' = 0
    /\ reading' = NoReading
    /\ startedAt' = -1
    /\ tpc' = "start"
    /\ UNCHANGED <<configured, seen, sensor, scratch, watch, cycles, busVars, restVars>>

StartMeasurement_unwrap ==
    /\ tpc = "start"
    /\ attempts' = attempts + 1
    /\ \E r \in ResetOutcomes :
         LET started == start_temp_measurement(r) IN
         IF started.kind = "Ok"
         THEN /\ tpc' = "convert"
              /\ startedAt' = clock
              /\ UNCHANGED reading
         ELSE /\ reading' = started
              /\ startedAt' = -1
              /\ tpc' = "panicked"
    /\ scratch' = EmptyScratchpad
    /\ UNCHANGED <<configured, seen, sensor, retries, crcFailures, watch, published,
                   cycles, clock, busVars, restVars>>

\* sensor.start_temp_measurement()?: an attempt begins.
StartMeasurement ==
    /\ tpc = "start"
    /\ attempts' = attempts + 1
    /\ \E r \in ResetOutcomes :
         LET started == start_temp_measurement(r) IN
         IF started.kind = "Ok"
         THEN /\ tpc' = "convert"
              /\ startedAt' = clock
              /\ UNCHANGED reading
         ELSE /\ reading' = started
              /\ startedAt' = -1
              /\ tpc' = "match"
    /\ scratch' = EmptyScratchpad
    /\ UNCHANGED <<configured, seen, sensor, retries, crcFailures, watch, published,
                   cycles, clock, busVars, restVars>>

ConversionWait_short ==
    /\ tpc = "convert"
    /\ clock' = clock + max_measurement_time("Bits9")
    /\ tpc' = "read"
    /\ UNCHANGED <<configured, startedAt, seen, sensor, retries, reading,
                   attempts, crcFailures, scratch, watch, published, cycles,
                   busVars, restVars>>

\* Timer::after(wait_time).await: the conversion time of 12 bits.
ConversionWait ==
    /\ tpc = "convert"
    /\ clock' = clock + max_measurement_time("Bits12")
    /\ tpc' = "read"
    /\ UNCHANGED <<configured, startedAt, seen, sensor, retries, reading, attempts, crcFailures,
                   scratch, watch, published, cycles, busVars, restVars>>

\* What read_sensor_data returns for each outcome of its reset and each
\* scratchpad the line can deliver, computed once.
SensorReadings ==
    [r \in ResetOutcomes, bytes \in ScratchPool |-> read_sensor_data(r, bytes)]

\* let data = sensor.read_sensor_data()?;
ReadSensorData ==
    /\ tpc = "read"
    /\ \E r \in ResetOutcomes, bytes \in ScratchPool :
         /\ reading' = SensorReadings[r, bytes]
         /\ scratch' = IF r = "Ok" THEN bytes ELSE scratch
    /\ crcFailures' = IF reading' = Err("ChecksumFailed")
                      THEN crcFailures + 1 ELSE crcFailures
    /\ tpc' = "match"
    /\ UNCHANGED <<configured, startedAt, seen, sensor, retries, attempts, watch, published,
                   cycles, clock, busVars, restVars>>

\* retries += 1; continue 'checksum_retries;
RetryAttempt ==
    /\ tpc = "match"
    /\ ShouldRetry(reading, retries)
    /\ retries' = retries + 1
    /\ tpc' = "start"
    /\ UNCHANGED <<configured, startedAt, seen, sensor, reading, attempts, crcFailures,
                   scratch, watch, published, cycles, clock, busVars, restVars>>

\* break 'checksum_retries reading;
BreakWithReading ==
    /\ tpc = "match"
    /\ ~ShouldRetry(reading, retries)
    /\ tpc' = "publish"
    /\ UNCHANGED <<configured, startedAt, seen, sensor, retries, reading, attempts, crcFailures,
                   scratch, watch, published, cycles, clock, busVars, restVars>>

Publish_success_only ==
    /\ tpc = "publish"
    /\ IF reading.kind = "Ok"
       THEN /\ watch' = [timestamp |-> clock,
                         temperature |-> Ok(reading.value.temperature),
                         retries |-> retries]
            /\ published' = published + 1
       ELSE UNCHANGED <<watch, published>>
    /\ cycles' = cycles + 1
    /\ tpc' = "interval"
    /\ UNCHANGED <<configured, startedAt, seen, sensor, retries, reading, attempts, crcFailures,
                   scratch, clock, busVars, restVars>>

\* tempsensor_sender.send(TemperatureReading { timestamp, temperature,
\* retries }); and the loop starts over.
Publish ==
    /\ tpc = "publish"
    /\ watch' = [timestamp |-> clock,
                 temperature |-> TemperatureOf(reading),
                 retries |-> retries]
    /\ published' = published + 1
    /\ cycles' = cycles + 1
    /\ tpc' = "interval"
    /\ UNCHANGED <<configured, startedAt, seen, sensor, retries, reading, attempts, crcFailures,
                   scratch, clock, busVars, restVars>>

SuspensionPoints_with_bus_calls == {"interval", "start", "convert", "read"}

\* Where the task awaits: Timer::after(TEMP_MEASUREMENT_INTERVAL).await and
\* Timer::after(wait_time).await. Nothing else in the loop can suspend it.
SuspensionPoints == {"interval", "convert"}

\* While the task is suspended the executor runs another task: a receiver
\* of the watch takes the reading that was sent.
OtherTaskRuns ==
    /\ tpc \in SuspensionPoints
    /\ seen # watch
    /\ seen' = watch
    /\ UNCHANGED <<tpc, configured, startedAt, sensor, retries, reading,
                   attempts, crcFailures, scratch, watch, published, cycles,
                   clock, busVars, restVars>>

\* No bus operation is modelled step by step while the task runs.
BusIdle ==
    /\ op = "none"
    /\ pc = "idle"
    /\ BusNew
    /\ address = U64Zero
    /\ byte = 0
    /\ command = 0
    /\ memory = <<>>
    /\ devices = {}
    /\ busHeldLowUntil = 0

InitSampler ==
    /\ tpc = "new"
    /\ configured \in ConfiguredAddresses
    /\ sensor = NoSensor
    /\ retries = 0
    /\ reading = NoReading
    /\ attempts = 0
    /\ crcFailures = 0
    /\ scratch = EmptyScratchpad
    /\ watch = NoReading
    /\ published = 0
    /\ cycles = 0
    /\ clock = 0
    /\ startedAt = -1
    /\ seen = NoReading
    /\ BusIdle
    /\ RestIdle

NextSampler ==
    \/ TaskStart
    \/ IntervalElapsed
    \/ StartMeasurement
    \/ ConversionWait
    \/ ReadSensorData
    \/ RetryAttempt
    \/ BreakWithReading
    \/ Publish
    \/ OtherTaskRuns

SpecSampler == InitSampler /\ [][NextSampler]_vars

\* The steps of the temp_sensor task itself. The executor polls a task
\* whose timer has expired, and between two awaits the task runs without
\* being preempted, so a step that stays enabled is taken.
TempSensorStep ==
    \/ TaskStart
    \/ IntervalElapsed
    \/ StartMeasurement
    \/ ConversionWait
    \/ ReadSensorData
    \/ RetryAttempt
    \/ BreakWithReading
    \/ Publish

SpecSamplerFair ==
    InitSampler /\ [][NextSampler]_vars /\ WF_vars(TempSensorStep)

----------------------------------------------------------------------------
(* The in-memory log: memlog.rs. *)

\* Calls of add_record explored.
MaxLogged == 4

\* Capacities given to memlog::init; the first is below the minimum.
Capacities == {35, 36, 40, 60}

\* Texts logged: messages of the firmware, one of them formatted and longer
\* than every capacity, and the empty string.
LogTexts ==
    {"", "powering display on", "case button triggered", DISCARD_ERROR,
     "imac5k display controller initialized",
     "wifi: connect error: the controller gave up after all of its retries"}

\* Two of the five levels: those of info() and error().
LoggedLevels == {"Info", "Error"}

Panicked == [panicked |-> TRUE]

pop_newest_first(storage) ==
    LET removed == storage.records[1] IN
    IF Len(removed.text) > storage.utilization THEN Panicked
    ELSE [storage EXCEPT !.records = Tail(@),
                         !.utilization = @ - Len(removed.text)]

\* One turn of the while loop of add_record:
\* let removed = self.records.pop_back().unwrap();
\* self.utilization -= removed.text.len();
\* The back of the queue holds the oldest record. The subtraction of usize
\* values panics when it would go below zero.
pop_oldest(storage) ==
    LET removed == storage.records[Len(storage.records)] IN
    IF Len(removed.text) > storage.utilization THEN Panicked
    ELSE [storage EXCEPT !.records = SubSeq(@, 1, Len(@) - 1),
                         !.utilization = @ - Len(removed.text)]

\* while (self.capacity - self.utilization) < text.len() { ... }
RECURSIVE make_room(_, _)
make_room(storage, needed) ==
    IF storage = Panicked THEN Panicked
    ELSE IF storage.utilization > storage.capacity THEN Panicked
    ELSE IF storage.capacity - storage.utilization >= needed THEN storage
    ELSE IF storage.records = <<>> THEN Panicked
    ELSE make_room(pop_oldest(storage), needed)

\* LogStorage::add_record(level, text) called at time at. A text longer than
\* the capacity is replaced by a warning with the text DISCARD_ERROR.
RECURSIVE add_record(_, _, _, _)
add_record(storage, level, text, at) ==
    IF Len(text) > storage.capacity
    THEN add_record(storage, "Warn", DISCARD_ERROR, at)
    ELSE LET fitted == make_room(storage, Len(text)) IN
         IF fitted = Panicked THEN Panicked
         ELSE [fitted EXCEPT
                  !.utilization = @ + Len(text),
                  !.records = <<[instant |-> at, level |-> level,
                                 text |-> text]>> \o @]

\* LogStorage::clear
clear(storage) == [storage EXCEPT !.utilization = 0, !.records = <<>>]

\* What the log leaves alone.
outsideLog == <<busVars, taskVars, consumerVars, powerVars>>

\* memlog::init(capacity): panics below the minimum, else replaces the
\* storage.
MemlogInit ==
    /\ logpc = "static"
    /\ \E room \in Capacities :
         /\ logCall' = [fn |-> "init", capacity |-> room]
         /\ IF room < Len(DISCARD_ERROR)
            THEN /\ logpc' = "init_panic"
                 /\ UNCHANGED GLOBAL_LOGGER
            ELSE /\ logpc' = "ready"
                 /\ GLOBAL_LOGGER' = with_capacity(room)
    /\ UNCHANGED <<logged, outsideLog>>

\* memlog::trace, debug, info, warn, error: add_record under the lock.
MemlogAddRecord ==
    /\ logpc \in {"static", "ready"}
    /\ logged < MaxLogged
    /\ \E level \in LoggedLevels, text \in LogTexts :
         LET stored == add_record(GLOBAL_LOGGER, level, text, logged + 1) IN
         /\ logCall' = [fn |-> "add_record", level |-> level, text |-> text]
         /\ IF stored = Panicked
            THEN /\ logpc' = "unwrap_panic"
                 /\ UNCHANGED GLOBAL_LOGGER
            ELSE /\ GLOBAL_LOGGER' = stored
                 /\ UNCHANGED logpc
    /\ logged' = logged + 1
    /\ UNCHANGED outsideLog

\* memlog::clear
MemlogClear ==
    /\ logpc \in {"static", "ready"}
    /\ GLOBAL_LOGGER' = clear(GLOBAL_LOGGER)
    /\ logCall' = [fn |-> "clear"]
    /\ UNCHANGED <<logpc, logged, outsideLog>>

InitLog ==
    /\ LogIdle
    /\ ConsumersIdle
    /\ PowerIdle("off")
    /\ BusIdle
    /\ TaskOff

NextLog ==
    \/ MemlogInit
    \/ MemlogAddRecord
    \/ MemlogClear

SpecLog == InitLog /\ [][NextLog]_vars

----------------------------------------------------------------------------

(* The receivers of the temperature watch and the fan: task/fan_duty.rs, *)
(* task/httpd.rs, task/serial_console.rs.                                   *)

\* What the receivers and the fan leave alone.
outsideConsumers == <<busVars, tpc, configured, sensor, retries, reading,
                      attempts, crcFailures, scratch, published, cycles,
                      clock, startedAt, seen, logVars, powerVars>>

TempSensorSend_keeps_unseen ==
    /\ Len(history) < MaxReadings
    /\ \E temperature \in PublishedTemperatures :
         LET sent == [timestamp |-> Len(history) + 1,
                      temperature |-> temperature,
                      retries |-> 0]
         IN  /\ watch' = IF watch = NoReading THEN sent ELSE watch
             /\ history' = Append(history, sent)
    /\ UNCHANGED <<at_id, received, pid_controller, fanduty, dutySent, pwm,
                   pwmAt, outsideConsumers>>

\* temp_sensor: tempsensor_sender.send(reading). The watch holds one value:
\* the new reading takes the place of the old one.
TempSensorSend ==
    /\ Len(history) < MaxReadings
    /\ \E temperature \in PublishedTemperatures :
         LET sent == [timestamp |-> Len(history) + 1,
                      temperature |-> temperature,
                      retries |-> 0]
         IN  /\ watch' = sent
             /\ history' = Append(history, sent)
    /\ UNCHANGED <<at_id, received, pid_controller, fanduty, dutySent, pwm,
                   pwmAt, outsideConsumers>>

\* A receiver takes the value of the watch and marks it as seen.
Receive(c) ==
    /\ at_id' = [at_id EXCEPT ![c] = Len(history)]
    /\ received' = [received EXCEPT ![c] = Append(@, watch)]

FanTempControl_error_as_zero ==
    /\ at_id["fan_temp_control"] < Len(history)
    /\ Receive("fan_temp_control")
    /\ LET updated == FanPidController_update(
                          pid_controller,
                          IF watch.temperature.kind = "Ok"
                          THEN watch.temperature.value ELSE 0)
       IN  /\ pid_controller' = updated.controller
           /\ fanduty' = round_as_u8(updated.duty)
           /\ dutySent' = dutySent + 1
    /\ UNCHANGED <<watch, history, pwm, pwmAt, outsideConsumers>>

\* fan_temp_control, one turn of its loop: changed().await returns once a
\* value was sent that this receiver has not seen; a temperature that is Ok
\* goes through the controller and the rounded duty is sent.
FanTempControl ==
    /\ at_id["fan_temp_control"] < Len(history)
    /\ Receive("fan_temp_control")
    /\ IF watch.temperature.kind = "Ok"
       THEN LET updated == FanPidController_update(pid_controller,
                                                   watch.temperature.value)
            IN  /\ pid_controller' = updated.controller
                /\ fanduty' = round_as_u8(updated.duty)
                /\ dutySent' = dutySent + 1
       ELSE UNCHANGED <<pid_controller, fanduty, dutySent>>
    /\ UNCHANGED <<watch, history, pwm, pwmAt, outsideConsumers>>

\* fan_duty, one turn of its loop: changed().await on the fan-duty watch,
\* then pwm_channel.set_duty.
FanDuty ==
    /\ pwmAt < dutySent
    /\ pwm' = fanduty
    /\ pwmAt' = dutySent
    /\ UNCHANGED <<watch, history, at_id, received, pid_controller, fanduty,
                   dutySent, outsideConsumers>>

\* GET /temp: tempsensor_receiver.try_get(), which is None while nothing
\* was sent. A request that finds the value of the request before it
\* shows nothing new.
HttpTemp ==
    /\ watch # NoReading
    /\ at_id["httpd"] < Len(history)
    /\ Receive("httpd")
    /\ UNCHANGED <<watch, history, pid_controller, fanduty, dutySent, pwm,
                   pwmAt, outsideConsumers>>

\* temp read and temp watch on the console: tempsensor_receiver.get().await
\* waits for a first value, changed() for one not seen yet.
ConsoleTemp ==
    /\ watch # NoReading
    /\ at_id["serial_console"] < Len(history)
    /\ Receive("serial_console")
    /\ UNCHANGED <<watch, history, pid_controller, fanduty, dutySent, pwm,
                   pwmAt, outsideConsumers>>

InitConsumers ==
    /\ ConsumersIdle
    /\ LogIdle
    /\ PowerIdle("off")
    /\ BusIdle
    /\ TaskOff

NextConsumers ==
    \/ TempSensorSend
    \/ FanTempControl
    \/ FanDuty
    \/ HttpTemp
    \/ ConsoleTemp

SpecConsumers == InitConsumers /\ [][NextConsumers]_vars

----------------------------------------------------------------------------

(* The display state and the power sequences: state.rs, power.rs,          *)
(* task/pin_control.rs, task/buzzer.rs, task/case_button.rs.                *)

\* Presses of the case button, messages sent by the console and the HTTP
\* server, and direct calls of the functions of state.rs and power.rs.
MaxPresses == 2
MaxOtherSends == 1
MaxCalls == 2

try_transition_unchecked(current, valid_from, transition_to) ==
    [result |-> "Ok", state |-> transition_to]

\* SharedState::try_transition: the result and the state the cell holds
\* after the call.
try_transition(current, valid_from, transition_to) ==
    IF current = valid_from
    THEN [result |-> "Ok", state |-> transition_to]
    ELSE [result |-> "Err", state |-> current]

set_standby(current) == try_transition(current, "PoweringOff", "Standby")
set_powering_on(current) == try_transition(current, "Standby", "PoweringOn")
set_display_on(current) == try_transition(current, "PoweringOn", "DisplayOn")
set_powering_off(current) == try_transition(current, "DisplayOn", "PoweringOff")

Setters == {"set_standby", "set_powering_on", "set_display_on",
            "set_powering_off"}
SetterCall(setter, current) ==
    CASE setter = "set_standby"      -> set_standby(current)
      [] setter = "set_powering_on"  -> set_powering_on(current)
      [] setter = "set_display_on"   -> set_display_on(current)
      [] setter = "set_powering_off" -> set_powering_off(current)

\* enum PinControlMessage
ButtonPower == [kind |-> "ButtonPower"]
ButtonMenu == [kind |-> "ButtonMenu"]
ButtonBack == [kind |-> "ButtonBack"]
ButtonDown == [kind |-> "ButtonDown"]
ButtonUp == [kind |-> "ButtonUp"]
DisplayPower(value) == [kind |-> "DisplayPower", value |-> value]
FanPower(value) == [kind |-> "FanPower", value |-> value]

\* power_on, as the steps between which it can be suspended: the check of
\* the state with set_powering_on()?, the send of DisplayPower(On), the
\* send of POWER_TONE, Timer::after(POWER_ON_PAUSE) with set_display_on()?,
\* the send of ButtonPower, the send of DISPLAY_TONE.
power_on ==
    <<[do |-> "begin", valid |-> "Standby", setter |-> "set_powering_on"],
      [do |-> "pin", message |-> DisplayPower("On")],
      [do |-> "tone", pattern |-> "POWER_TONE"],
      [do |-> "pause", setter |-> "set_display_on"],
      [do |-> "pin", message |-> ButtonPower],
      [do |-> "tone", pattern |-> "DISPLAY_TONE"]>>

\* power_off, likewise: ButtonPower first, DisplayPower(Off) after
\* BUTTON_OFF_PAUSE and set_standby()?.
power_off ==
    <<[do |-> "begin", valid |-> "DisplayOn", setter |-> "set_powering_off"],
      [do |-> "pin", message |-> ButtonPower],
      [do |-> "tone", pattern |-> "DISPLAY_TONE"],
      [do |-> "pause", setter |-> "set_standby"],
      [do |-> "pin", message |-> DisplayPower("Off")],
      [do |-> "tone", pattern |-> "POWER_TONE"]>>

PowerFunctions == {"power_on", "power_off"}
Script(fn) == IF fn = "power_on" THEN power_on ELSE power_off

\* A power function is running and is at the step of the given kind.
PowerAt(doing) ==
    /\ fpc.fn \in PowerFunctions
    /\ fpc.step <= Len(Script(fpc.fn))
    /\ Script(fpc.fn)[fpc.step].do = doing
PowerStep == Script(fpc.fn)[fpc.step]
PowerReturned ==
    fpc.fn \in PowerFunctions /\ fpc.step > Len(Script(fpc.fn))

\* The function goes on to its next step; after the last it returns Ok(()).
PowerAdvance ==
    /\ fpc' = [fpc EXCEPT !.step = @ + 1]
    /\ fresult' = IF fpc.step = Len(Script(fpc.fn)) THEN "Ok" ELSE fresult
\* bail!(..) and the ? operator: the function returns the error.
PowerBail ==
    /\ fpc' = [fpc EXCEPT !.step = Len(Script(fpc.fn)) + 1]
    /\ fresult' = "Err"

\* What the display state and the power sequences leave alone.
outsidePower == <<busVars, taskVars, logVars, consumerVars>>

\* power_on / power_off up to the first send: the current state is
\* compared with the one the function requires, and the setter is called.
PowerBegin ==
    /\ PowerAt("begin")
    /\ LET moved == SetterCall(PowerStep.setter, state) IN
         IF state # PowerStep.valid \/ moved.result = "Err"
         THEN PowerBail /\ UNCHANGED state
         ELSE PowerAdvance /\ state' = moved.state
    /\ UNCHANGED <<pincontrol_channel, buzzer_channel, setterCall, cbpc,
                   pinctl, pin_levels, pinlog, callsMade, presses,
                   otherSends, ignored, outsidePower>>

\* pincontrol_channel.send(..).await: completes when the channel has room.
PowerSendPin ==
    /\ PowerAt("pin")
    /\ Len(pincontrol_channel) < CHANNEL_BACKLOG
    /\ pincontrol_channel' =
           Append(pincontrol_channel,
                  [message |-> PowerStep.message,
                   from |-> <<fpc.fn, fpc.call>>])
    /\ PowerAdvance
    /\ UNCHANGED <<state, buzzer_channel, setterCall, cbpc, pinctl,
                   pin_levels, pinlog, callsMade, presses, otherSends,
                   ignored, outsidePower>>

\* buzzer_channel.send(..).await
PowerSendTone ==
    /\ PowerAt("tone")
    /\ Len(buzzer_channel) < CHANNEL_BACKLOG
    /\ buzzer_channel' = Append(buzzer_channel, PowerStep.pattern)
    /\ PowerAdvance
    /\ UNCHANGED <<state, pincontrol_channel, setterCall, cbpc, pinctl,
                   pin_levels, pinlog, callsMade, presses, otherSends,
                   ignored, outsidePower>>

\* Timer::after(..).await has elapsed: state.set_display_on()? in power_on,
\* state.set_standby()? in power_off.
PowerResume ==
    /\ PowerAt("pause")
    /\ LET moved == SetterCall(PowerStep.setter, state) IN
         IF moved.result = "Err"
         THEN PowerBail /\ UNCHANGED state
         ELSE PowerAdvance /\ state' = moved.state
    /\ UNCHANGED <<pincontrol_channel, buzzer_channel, setterCall, cbpc,
                   pinctl, pin_levels, pinlog, callsMade, presses,
                   otherSends, ignored, outsidePower>>

\* The pin a message acts on and the level that is its active one.
PinOf(message) ==
    CASE message.kind = "ButtonPower"  -> "pin_button_power"
      [] message.kind = "ButtonMenu"   -> "pin_button_menu"
      [] message.kind = "ButtonBack"   -> "pin_button_back"
      [] message.kind = "ButtonDown"   -> "pin_button_down"
      [] message.kind = "ButtonUp"     -> "pin_button_up"
      [] message.kind = "DisplayPower" -> "pin_power_display"
      [] message.kind = "FanPower"     -> "pin_power_fan"
ActiveLevel(message) ==
    CASE message.kind = "ButtonPower" -> "high"
      [] message.kind \in {"DisplayPower", "FanPower"} ->
             IF message.value = "On" THEN "high" ELSE "low"
      [] OTHER -> "low"
Inactive(level) == IF level = "high" THEN "low" ELSE "high"

\* The pin is set to a level; the record of what pin_control did grows.
SetPin(entry, level) ==
    /\ pin_levels' = [pin_levels EXCEPT ![PinOf(entry.message)] = level]
    /\ pinlog' = Append(pinlog, [pin |-> PinOf(entry.message),
                                 level |-> level, from |-> entry.from])

PinControlReceive_newest_first ==
    /\ pinctl = Receiving
    /\ pincontrol_channel # <<>>
    /\ LET entry == pincontrol_channel[Len(pincontrol_channel)] IN
         /\ pincontrol_channel' =
                SubSeq(pincontrol_channel, 1, Len(pincontrol_channel) - 1)
         /\ SetPin(entry, ActiveLevel(entry.message))
         /\ pinctl' = IF entry.message.kind \in {"DisplayPower", "FanPower"}
                      THEN Receiving ELSE entry
    /\ UNCHANGED <<state, buzzer_channel, fpc, fresult, setterCall, cbpc,
                   callsMade, presses, otherSends, ignored, outsidePower>>

\* pin_control: pincontrol_channel.receive().await and the arm of the
\* match up to its await. A button is set to its active level; a MOSFET
\* gate is set and the loop goes round.
PinControlReceive ==
    /\ pinctl = Receiving
    /\ pincontrol_channel # <<>>
    /\ LET entry == Head(pincontrol_channel) IN
         /\ pincontrol_channel' = Tail(pincontrol_channel)
         /\ SetPin(entry, ActiveLevel(entry.message))
         /\ pinctl' = IF entry.message.kind \in {"DisplayPower", "FanPower"}
                      THEN Receiving ELSE entry
    /\ UNCHANGED <<state, buzzer_channel, fpc, fresult, setterCall, cbpc,
                   callsMade, presses, otherSends, ignored, outsidePower>>

\* pin_control: Timer::after(BUTTON_DELAY_MS).await has elapsed and the
\* button is set back.
PinControlRelease ==
    /\ pinctl # Receiving
    /\ SetPin(pinctl, Inactive(ActiveLevel(pinctl.message)))
    /\ pinctl' = Receiving
    /\ UNCHANGED <<state, pincontrol_channel, buzzer_channel, fpc, fresult,
                   setterCall, cbpc, callsMade, presses, otherSends, ignored,
                   outsidePower>>

\* buzzer_control: buzzer_channel.receive().await; the pattern is played.
BuzzerControl ==
    /\ buzzer_channel # <<>>
    /\ buzzer_channel' = Tail(buzzer_channel)
    /\ UNCHANGED <<state, pincontrol_channel, fpc, fresult, setterCall, cbpc,
                   pinctl, pin_levels, pinlog, callsMade, presses,
                   otherSends, ignored, outsidePower>>

\* What the console and the HTTP server send here: the button ... commands
\* and power display on / off.
OtherMessages == {ButtonPower, ButtonMenu, DisplayPower("Off")}

\* serial_console and httpd: pincontrol_channel.send(..).await. Neither
\* task calls a function of state.rs or power.rs.
OtherTaskSend ==
    /\ otherSends < MaxOtherSends
    /\ Len(pincontrol_channel) < CHANNEL_BACKLOG
    /\ \E message \in OtherMessages :
         pincontrol_channel' =
             Append(pincontrol_channel,
                    [message |-> message, from |-> <<"other", 0>>])
    /\ otherSends' = otherSends + 1
    /\ UNCHANGED <<state, buzzer_channel, fpc, fresult, setterCall, cbpc,
                   pinctl, pin_levels, pinlog, callsMade, presses, ignored,
                   outsidePower>>

\* case_button: case_pin.wait_for_falling_edge().await returns.
CaseButtonEdge ==
    /\ cbpc = "wait_edge"
    /\ presses < MaxPresses
    /\ presses' = presses + 1
    /\ cbpc' = "held"
    /\ UNCHANGED <<state, pincontrol_channel, buzzer_channel, fpc, fresult,
                   setterCall, pinctl, pin_levels, pinlog, callsMade,
                   otherSends, ignored, outsidePower>>

\* How long the button was held when the wait for the release ended, in
\* milliseconds; with_timeout ends the wait at BUTTON_HELD_DURATION_MAX.
HeldDurations == {100, BUTTON_HELD_DURATION_MIN, 700, BUTTON_HELD_DURATION_MAX}

CaseButtonEvaluate_no_wait ==
    /\ cbpc = "held"
    /\ \E held_duration \in HeldDurations :
         IF held_duration > BUTTON_HELD_DURATION_MIN
         THEN IF state \in {"Standby", "DisplayOn"}
              THEN /\ callsMade' = callsMade + 1
                   /\ fpc' = [fn |-> IF state = "Standby" THEN "power_on"
                                     ELSE "power_off",
                              step |-> 1, call |-> callsMade + 1]
                   /\ cbpc' = "wait_edge"
                   /\ UNCHANGED ignored
              ELSE /\ ignored' = ignored + 1
                   /\ cbpc' = "wait_edge"
                   /\ UNCHANGED <<fpc, callsMade>>
         ELSE /\ cbpc' = "wait_edge"
              /\ UNCHANGED <<fpc, callsMade, ignored>>
    /\ UNCHANGED <<state, pincontrol_channel, buzzer_channel, fresult,
                   setterCall, pinctl, pin_levels, pinlog, presses,
                   otherSends, outsidePower>>

\* case_button: the button was released or the timeout ran out. A press
\* held for more than BUTTON_HELD_DURATION_MIN is matched against the
\* state: power_on in Standby, power_off in DisplayOn, and the task awaits
\* the call; in another state the press is ignored with a warning.
CaseButtonEvaluate ==
    /\ cbpc = "held"
    /\ \E held_duration \in HeldDurations :
         IF held_duration > BUTTON_HELD_DURATION_MIN
         THEN IF state \in {"Standby", "DisplayOn"}
              THEN /\ callsMade' = callsMade + 1
                   /\ fpc' = [fn |-> IF state = "Standby" THEN "power_on"
                                     ELSE "power_off",
                              step |-> 1, call |-> callsMade + 1]
                   /\ cbpc' = "await_power"
                   /\ UNCHANGED ignored
              ELSE /\ ignored' = ignored + 1
                   /\ cbpc' = "wait_edge"
                   /\ UNCHANGED <<fpc, callsMade>>
         ELSE /\ cbpc' = "wait_edge"
              /\ UNCHANGED <<fpc, callsMade, ignored>>
    /\ UNCHANGED <<state, pincontrol_channel, buzzer_channel, fresult,
                   setterCall, pinctl, pin_levels, pinlog, presses,
                   otherSends, outsidePower>>

\* case_button: the awaited call has returned; .unwrap() panics on an Err.
CaseButtonUnwrap ==
    /\ cbpc = "await_power"
    /\ PowerReturned
    /\ cbpc' = IF fresult = "Ok" THEN "wait_edge" ELSE "panicked"
    /\ fpc' = NoPowerCall
    /\ UNCHANGED <<state, pincontrol_channel, buzzer_channel, fresult,
                   setterCall, pinctl, pin_levels, pinlog, callsMade,
                   presses, otherSends, ignored, outsidePower>>

\* power_on or power_off is called on its own, in whatever state the
\* display is.
CallPower ==
    /\ cbpc = "off"
    /\ fpc = NoPowerCall \/ PowerReturned
    /\ callsMade < MaxCalls
    /\ callsMade' = callsMade + 1
    /\ \E fn \in PowerFunctions :
         fpc' = [fn |-> fn, step |-> 1, call |-> callsMade + 1]
    /\ UNCHANGED <<state, pincontrol_channel, buzzer_channel, fresult,
                   setterCall, cbpc, pinctl, pin_levels, pinlog, presses,
                   otherSends, ignored, outsidePower>>

\* One of set_standby, set_powering_on, set_display_on, set_powering_off is
\* called on its own, in whatever state the display is.
CallSetter ==
    /\ cbpc = "off"
    /\ callsMade < MaxCalls
    /\ callsMade' = callsMade + 1
    /\ \E setter \in Setters :
         LET moved == SetterCall(setter, state) IN
         /\ state' = moved.state
         /\ setterCall' = [fn |-> setter, call |-> callsMade + 1,
                           from |-> state, result |-> moved.result]
    /\ UNCHANGED <<pincontrol_channel, buzzer_channel, fpc, fresult, cbpc,
                   pinctl, pin_levels, pinlog, presses, otherSends, ignored,
                   outsidePower>>

\* The firmware: the case-button task is the only caller of power_on and
\* power_off.
InitPower ==
    /\ PowerIdle("wait_edge")
    /\ LogIdle
    /\ ConsumersIdle
    /\ BusIdle
    /\ TaskOff

NextPower ==
    \/ CaseButtonEdge
    \/ CaseButtonEvaluate
    \/ CaseButtonUnwrap
    \/ PowerBegin
    \/ PowerSendPin
    \/ PowerSendTone
    \/ PowerResume
    \/ PinControlReceive
    \/ PinControlRelease
    \/ BuzzerControl
    \/ OtherTaskSend

SpecPower == InitPower /\ [][NextPower]_vars

\* The functions of state.rs and power.rs called on their own, with the
\* tasks that serve the channels.
InitPowerCalls ==
    /\ PowerIdle("off")
    /\ LogIdle
    /\ ConsumersIdle
    /\ BusIdle
    /\ TaskOff

NextPowerCalls ==
    \/ CallPower
    \/ CallSetter
    \/ PowerBegin
    \/ PowerSendPin
    \/ PowerSendTone
    \/ PowerResume
    \/ PinControlReceive
    \/ PinControlRelease
    \/ BuzzerControl
    \/ OtherTaskSend

SpecPowerCalls == InitPowerCalls /\ [][NextPowerCalls]_vars

----------------------------------------------------------------------------

(* Properties of the bus engine, checked under Spec. *)

Returned(o) == op = o /\ pc = "done"

\* The line was low at one of the instants at which the listening loop of
\* reset reads it: start, start + 20, ... while less than 504 us have passed.
ObservedLowInWindow ==
    \E k \in 0..((RESET_TIME_LOW - 1) \div LISTEN_POLL) :
        ExternalLow(start + k * LISTEN_POLL)

\* The line was low at every instant at which wait_for_high reads it.
NeverHighInWait ==
    \A k \in 0..((WAIT_HIGH_TIMEOUT - 1) \div WAIT_HIGH_POLL) :
        ExternalLow(instant + k * WAIT_HIGH_POLL)

CrcValid(a) == Checksum(0, to_le_bytes(a), 1) = 0

\* a comes before b in the order of the search: at the lowest bit position
\* where they differ, a has 0.
SearchBefore(a, b) ==
    \E k \in 0..63 :
        /\ U64Bit(a, k) = 0 /\ U64Bit(b, k) = 1
        /\ \A j \in 0..(k - 1) : U64Bit(a, j) = U64Bit(b, j)

\* The bit positions at which a and b differ.
DiffBits(a, b) == {k \in 0..63 : U64Bit(a, k) # U64Bit(b, k)}

\* A search on a sound bus: the line floated high in time and the devices
\* stayed on the bus.
SoundSearch == Returned("find_first_device") /\ ~unplugged /\ ~NeverHighInWait

\* C1: a reset() that got past wait_for_high returns Ok if and only if the
\* line was observed low at one of the polls of the 504 us listening window,
\* and DeviceNotPresent otherwise; with nothing pulling the line low in the
\* window it returns DeviceNotPresent.
C1_ResetOkIffLowObserved ==
    (Returned("reset") /\ result # "BusNotHighTimeout") =>
        /\ result \in {"Ok", "DeviceNotPresent"}
        /\ result = "Ok" <=> ObservedLowInWindow
        /\ pulse = NoPulse => result = "DeviceNotPresent"

\* C1 witness: reset returned Ok for a presence pulse that was over before
\* the listening window ended.
C1_Witness ==
    /\ Returned("reset")
    /\ result = "Ok"
    /\ pulse.len > 0
    /\ pulse.at + pulse.len < start + RESET_TIME_LOW

\* C2: if the line read low at every poll of wait_for_high, the operation
\* returns BusNotHighTimeout and the master never drove the line low.
C2_TimeoutBeforeResetPulse ==
    (pc = "done" /\ NeverHighInWait) =>
        /\ result = "BusNotHighTimeout"
        /\ lowCount = 0
        /\ pin = "high"

\* C2 witness: reset gave up after 25 polls that all read low.
C2_Witness ==
    /\ Returned("reset")
    /\ result = "BusNotHighTimeout"
    /\ highPolls = 25
    /\ now - instant = WAIT_HIGH_TIMEOUT

\* C3: with exactly one device on a sound bus, its address having a valid
\* CRC, find_first_device returns Ok with that address, bit for bit.
C3_SingleDeviceFound ==
    \A d \in devices :
        (SoundSearch /\ devices = {d} /\ CrcValid(d)) =>
            /\ result = "Ok"
            /\ \A k \in 0..63 : U64Bit(found, k) = U64Bit(d, k)

\* C3 witness: a search that returned the address of the only device.
C3_Witness ==
    /\ SoundSearch
    /\ Cardinality(devices) = 1
    /\ result = "Ok"
    /\ found \in devices
    /\ bit_index = 64

C5_Original_ZeroDeviceReturned ==
    \A a, b \in devices :
        (SoundSearch /\ devices = {a, b} /\ Cardinality(DiffBits(a, b)) = 1
            /\ SearchBefore(a, b)) =>
            result = "Ok" /\ found = a

\* C5 (amended): of two devices differing in exactly one bit k, the search
\* always follows the one whose bit k is 0: the address assembled is that
\* device's, and it is returned with Ok when its CRC is valid, while the
\* search fails with ChecksumFailed when it is not.
C5_ZeroDeviceFollowed ==
    \A a, b \in devices :
        (SoundSearch /\ devices = {a, b} /\ Cardinality(DiffBits(a, b)) = 1
            /\ SearchBefore(a, b)) =>
            /\ address = a
            /\ CrcValid(a) => result = "Ok" /\ found = a
            /\ ~CrcValid(a) => result = "ChecksumFailed" /\ found = NoAddress

\* C5 witness: two devices one bit apart, the one with 0 there returned.
C5_Witness ==
    /\ SoundSearch
    /\ result = "Ok"
    /\ \E a, b \in devices :
          devices = {a, b} /\ Cardinality(DiffBits(a, b)) = 1 /\ found = a
              /\ SearchBefore(a, b)

\* C6: when both read slots of a bit position went unanswered, the search
\* returns NoResponseToSearch there, with no further slot; and nothing
\* happens on the bus after an operation returned.
C6_NoResponseStopsSearch ==
    [][/\ (pc = "choose" /\ ~false_bit /\ ~true_bit /\ pc' # pc) =>
            /\ pc' = "done"
            /\ result' = "NoResponseToSearch"
            /\ slots' = slots /\ lowCount' = lowCount
            /\ bit_index' = bit_index /\ found' = NoAddress
       /\ (pc = "done") => (pc' = "done" /\ slots' = slots)]_vars

\* C6 witness: a search that stopped at a later bit position, after the two
\* read slots of that position and three slots for every earlier one.
C6_Witness ==
    /\ Returned("find_first_device")
    /\ result = "NoResponseToSearch"
    /\ bit_index > 0
    /\ slots = 8 + 3 * bit_index + 2

\* C7: find_first_device returns Ok(address) only for an address whose
\* eight little-endian bytes have checksum zero; having read all 64 bits of
\* an address whose checksum is not zero, it returns ChecksumFailed and no
\* address.
C7_OkOnlyWithValidCrc ==
    Returned("find_first_device") =>
        /\ result = "Ok" => (found = address /\ CrcValid(found))
        /\ (bit_index = 64 /\ ~CrcValid(address)) =>
              (result = "ChecksumFailed" /\ found = NoAddress)
        /\ result # "Ok" => found = NoAddress

\* C7 witness: all 64 bits read, and the search failed on the CRC.
C7_Witness ==
    /\ Returned("find_first_device")
    /\ bit_index = 64
    /\ result = "ChecksumFailed"
    /\ ~CrcValid(address)

----------------------------------------------------------------------------
(* Properties of the bit slots and of the operations made of them,         *)
(* checked under Spec.                                                     *)

\* The positions inside reset and wait_for_high.
ResetPcs == {"reset", "wait_for_high", "reset_low", "reset_high", "listen"}

\* C13: the master drives the line low only during the low part of a bit
\* slot or during the reset pulse. At every other time the pin is released:
\* after OneWireBus::new, between the slots of an operation, and when an
\* operation has returned, with Ok or with an error.
C13_ReleasedUnlessTransmitting ==
    /\ pin = "low" => (phase = "low" \/ pc = "reset_high")
    /\ lowCount = 0 => pin = "high"
    /\ pc = "done" => (pin = "high" /\ phase = "none")

\* C13 witness: send_command has returned after a last write slot of 0, in
\* which the line is held low until the slot ends: the pin is released.
C13_Witness ==
    /\ Returned("send_command")
    /\ result = "Ok"
    /\ kind = "write"
    /\ bit = 0
    /\ riseAt = now
    /\ pin = "high"

\* C14: whenever a bit slot follows another one in an operation of the bus
\* engine or of the driver, the line had been released for at least 2 us
\* when the slot began.
C14_RecoveryGapBetweenSlots ==
    (op \in EngineOps /\ slots > 1) => gap >= 2

\* The same, for the slots begun by write_byte and by read_byte only: the
\* slots of find_first_device's own loop are left out.
C14_GapOutsideSearchLoop ==
    (op \in EngineOps /\ slots > 1 /\ pc \notin {"read_false", "read_true",
                                                "choose", "write_chosen",
                                                "validate"}
        /\ ~(op = "find_first_device" /\ pc = "done")) => gap >= 2

\* The line is high at time u of the last write slot: the master does not
\* hold it low then, and nothing else does.
WriteSlotLineHigh(u) == ~(fallAt <= u /\ u < riseAt) /\ ~ExternalLow(u)

\* C15: write_bit(value) pulls the line low when the slot begins and holds
\* it low for 5 us if value is true and for 80 us if it is false; it
\* returns 80 us after the slot began in both cases; and at every instant
\* from 15 us to 60 us after the slot began the line is high if and only if
\* value is true.
C15_WriteSlotTiming ==
    kind = "write" =>
        /\ phase = "low" =>
              /\ pin = "low"
              /\ now - fallAt = (IF bit = 1 THEN 5 ELSE 80)
        /\ phase = "none" =>
              /\ riseAt - fallAt = (IF bit = 1 THEN 5 ELSE 80)
              /\ slotEnd - fallAt = 80
              /\ \A t \in 15..60 : WriteSlotLineHigh(fallAt + t) <=> (bit = 1)
              /\ txBits[Len(txBits)] = bit

\* C15 witness: write_byte has written a 1 after a 0: the line was low for
\* 5 us of the slot's 80 us.
C15_Witness ==
    /\ op = "write_byte"
    /\ kind = "write"
    /\ phase = "none"
    /\ bit = 1
    /\ Len(txBits) > 1
    /\ txBits[Len(txBits) - 1] = 0
    /\ riseAt - fallAt = 5
    /\ slotEnd - fallAt = 80

\* C16: read_bit() drives the line low for 6 us and releases it; 9 us
\* later, 15 us after the slot began, it samples the line, once; the bit it
\* returns is 1 if and only if nothing holds the line low at that instant;
\* and it returns 55 us after the sample, 70 us after the slot began.
C16_ReadSlotTiming ==
    [][/\ (kind' = "read" /\ phase = "none" /\ phase' = "low") =>
             /\ pin = "high" /\ pin' = "low"
             /\ fallAt' = now
             /\ now' - fallAt' = 6
       /\ (kind = "read" /\ phase = "low" /\ phase' # phase) =>
             /\ phase' = "released"
             /\ pin' = "high"
             /\ now - fallAt = 6
             /\ now' - now = 9
             /\ rxBits' = rxBits
       /\ (phase = "released" /\ phase' # phase) =>
             /\ phase' = "none"
             /\ pin = "high" /\ pin' = "high"
             /\ sampleAt' = now
             /\ sampleAt' - fallAt = 15
             /\ (bit' = 1) <=> ~(deviceLow \/ ExternalLow(now))
             /\ rxBits' = Append(rxBits, bit')
             /\ now' - sampleAt' = 55
             /\ slotEnd' = now'
             /\ slotEnd' - fallAt = 70
       /\ (rxBits' # rxBits) => phase = "released"]_vars

\* C16 witness: read_byte has read a 0 after a 1, in a slot sampled 15 us
\* after it began and left 70 us after it began.
C16_Witness ==
    /\ op = "read_byte"
    /\ kind = "read"
    /\ phase = "none"
    /\ Len(rxBits) > 1
    /\ bit = 0
    /\ rxBits[Len(rxBits) - 1] = 1
    /\ sampleAt - fallAt = 15
    /\ slotEnd - fallAt = 70

\* C17: write_byte(b) makes exactly eight write slots and no read slot, and
\* its slot number n (n = 0..7) carries bit n of b; read_byte() makes
\* exactly eight read slots and no write slot, and bit n of the byte it
\* returns is the bit sampled in its slot number n.
C17_LsbFirst ==
    /\ Returned("write_byte") =>
          /\ slots = 8
          /\ Len(txBits) = 8
          /\ rxBits = <<>>
          /\ \A n \in 0..7 : txBits[n + 1] = (byte \div (2 ^ n)) % 2
    /\ Returned("read_byte") =>
          /\ slots = 8
          /\ Len(rxBits) = 8
          /\ txBits = <<>>
          /\ acc \in 0..255
          /\ \A n \in 0..7 : (acc \div (2 ^ n)) % 2 = rxBits[n + 1]

\* C17 witness: write_byte(0b10110000) has put 0,0,0,0,1,1,0,1 on the bus.
C17_Witness ==
    /\ Returned("write_byte")
    /\ byte = 176
    /\ txBits = <<0, 0, 0, 0, 1, 1, 0, 1>>

\* C18: on a loopback bus, where the eight read slots of read_byte() are
\* given, in order, the bits that the eight write slots of write_byte(b)
\* carried, read_byte() returns b, for every byte b.
C18_LoopbackRoundTrip ==
    Returned("loopback") =>
        /\ Len(txBits) = 8
        /\ rxBits = txBits
        /\ acc = byte

\* C18 witness: 0b10110000 was written and read back.
C18_Witness ==
    /\ Returned("loopback")
    /\ byte = 176
    /\ acc = 176
    /\ slots = 16

\* Byte j of a 64-bit value, j = 0 being the least significant: its bits
\* 8j .. 8j + 7.
AddressByte(a, j) ==
    LET b(m) == U64Bit(a, 8 * j + m) * Pow2(m)
    IN  b(0) + b(1) + b(2) + b(3) + b(4) + b(5) + b(6) + b(7)

\* C19: match_address(address) makes 72 write slots and nothing else: no
\* reset and no read slot. They carry nine bytes: 0x55, then the eight
\* bytes of the address from the least significant (the family code) to
\* the most significant (the CRC).
C19_MatchAddressBytes ==
    Returned("match_address") =>
        /\ slots = 72
        /\ lowCount = 72
        /\ Len(txBits) = 72
        /\ rxBits = <<>>
        /\ resets = 0
        /\ HeardBytes(txBits)[1] = 85
        /\ \A j \in 0..7 : HeardBytes(txBits)[j + 2] = AddressByte(address, j)

\* C19 witness: match_address(0xF682AA490B646128) has sent
\* 55 28 61 64 0B 49 AA 82 F6.
C19_Witness ==
    /\ Returned("match_address")
    /\ address = DSPL_TEMP_SENSOR_ADDRESS
    /\ HeardBytes(txBits) = <<85, 40, 97, 100, 11, 73, 170, 130, 246>>

\* C20: send_command(command, address) calls reset once and makes no bit
\* slot before reset has returned Ok. If reset fails, send_command returns
\* the error of that reset at once: no second reset, no bit slot. If reset
\* succeeds, it makes 80 write slots that carry 0x55, the eight bytes of
\* the address, least significant first, and then the command byte, and
\* returns Ok.
C20_SendCommandOrder ==
    op = "send_command" =>
        /\ resets <= 1
        /\ pc \in ResetPcs => slots = 0
        /\ slots > 0 => (resets = 1 /\ device_present /\ ~NeverHighInWait)
        /\ pc = "done" =>
              /\ resets = 1
              /\ NeverHighInWait =>
                    (result = "BusNotHighTimeout" /\ lowCount = 0)
              /\ (~NeverHighInWait /\ ~ObservedLowInWindow) =>
                    (result = "DeviceNotPresent" /\ lowCount = 1)
              /\ result # "Ok" =>
                    /\ result \in {"BusNotHighTimeout", "DeviceNotPresent"}
                    /\ slots = 0
                    /\ txBits = <<>>
              /\ result = "Ok" =>
                    /\ ObservedLowInWindow
                    /\ slots = 80
                    /\ Len(txBits) = 80
                    /\ rxBits = <<>>
                    /\ HeardBytes(txBits)[1] = 85
                    /\ \A j \in 0..7 :
                          HeardBytes(txBits)[j + 2] = AddressByte(address, j)
                    /\ HeardBytes(txBits)[10] = command

\* C20 witness: no device answered the reset pulse, and send_command
\* returned DeviceNotPresent after its one reset, without a bit slot.
C20_Witness ==
    /\ Returned("send_command")
    /\ result = "DeviceNotPresent"
    /\ resets = 1
    /\ lowCount = 1
    /\ slots = 0

\* The functions that begin with a reset and go on to a command sequence,
\* and the bit slots of one pass of the sequence: 8 for a command byte, 64
\* for an address, 72 for the scratchpad, three for each bit of a search.
CallsWithReset ==
    {"send_command", "start_temp_measurement", "read_scratchpad",
     "read_sensor_data", "find_first_device"}
WriteSlotsOfPass ==
    CASE op \in CommandOps \cup ScratchpadOps -> 8 + 64 + 8
      [] op = "find_first_device" -> 8 + 64
ReadSlotsOfPass ==
    CASE op \in CommandOps -> 0
      [] op \in ScratchpadOps -> 8 * SCRATCHPAD_LEN
      [] op = "find_first_device" -> 2 * 64

\* C21: a call of send_command, start_temp_measurement, read_scratchpad,
\* read_sensor_data or find_first_device makes exactly one reset and at
\* most one pass of its command sequence; when it returns an error nothing
\* was repeated: a failed reset is followed by no bit slot, and a failure
\* later in the pass by no further reset and no further slot.
C21_NoInternalRetry ==
    op \in CallsWithReset =>
        /\ resets <= 1
        /\ pc # "reset" => resets = 1
        /\ lowCount <= 1 + slots
        /\ Len(txBits) <= WriteSlotsOfPass
        /\ Len(rxBits) <= ReadSlotsOfPass
        /\ slots <= WriteSlotsOfPass + ReadSlotsOfPass
        /\ (pc = "done" /\ result # "Ok") =>
              CASE result = "BusNotHighTimeout" ->
                      lowCount = 0 /\ slots = 0
                [] result = "DeviceNotPresent" ->
                      lowCount = 1 /\ slots = 0
                [] result = "NoResponseToSearch" ->
                      /\ op = "find_first_device"
                      /\ Len(txBits) = 8 + bit_index
                      /\ Len(rxBits) = 2 * (bit_index + 1)
                [] result = "ChecksumFailed" ->
                      /\ op \in ScratchpadOps \cup {"find_first_device"}
                      /\ Len(txBits) = WriteSlotsOfPass
                      /\ Len(rxBits) = ReadSlotsOfPass
                      /\ lowCount = 1 + slots
                [] result = "InvalidResolution" ->
                      /\ op = "read_sensor_data"
                      /\ Len(txBits) = WriteSlotsOfPass
                      /\ Len(rxBits) = ReadSlotsOfPass
                      /\ lowCount = 1 + slots
                [] OTHER -> FALSE

\* C21 witness: read_sensor_data read a corrupted scratchpad and returned
\* ChecksumFailed after its one reset and its one pass of 152 slots.
C21_Witness ==
    /\ Returned("read_sensor_data")
    /\ result = "ChecksumFailed"
    /\ resets = 1
    /\ slots = 152
    /\ Len(rxBits) = 72

\* The CRC of the Dallas/Maxim devices, from its definition: the bits of the
\* bytes, each byte from its lowest bit, are divided by x^8 + x^5 + x^4 + 1
\* (0x31) in a register that starts at zero, and the remainder is read with
\* its bits in reverse order.
Reflect8(v) ==
    LET r(k) == Bit(v, k) * Pow2(7 - k)
    IN  r(0) + r(1) + r(2) + r(3) + r(4) + r(5) + r(6) + r(7)

\* One step of the division: the register after the bit b comes in.
DivisionStep ==
    [reg \in 0..255, b \in 0..1 |->
        LET shifted == (reg * 2) % 256
        IN  IF (Bit(reg, 7) + b) % 2 = 1 THEN Xor8(shifted, 49) ELSE shifted]

\* The register after the eight bits of the byte v have come in, lowest bit
\* first.
DivideByte(reg, v) ==
    LET s1 == DivisionStep[reg, Bit(v, 0)]
        s2 == DivisionStep[s1, Bit(v, 1)]
        s3 == DivisionStep[s2, Bit(v, 2)]
        s4 == DivisionStep[s3, Bit(v, 3)]
        s5 == DivisionStep[s4, Bit(v, 4)]
        s6 == DivisionStep[s5, Bit(v, 5)]
        s7 == DivisionStep[s6, Bit(v, 6)]
    IN  DivisionStep[s7, Bit(v, 7)]

RECURSIVE DivideBy31(_, _, _)
\* The register after the bytes from position n on have come in. (The
\* register is computed, as c, before the next byte is taken with it.)
DivideBy31(reg, bytes, n) ==
    IF n > Len(bytes) THEN reg
    ELSE CHOOSE r \in {DivideBy31(c, bytes, n + 1) :
                           c \in {DivideByte(reg, bytes[n])}} : TRUE

MaximCrc(bytes) == Reflect8(DivideBy31(0, bytes, 1))

\* The last byte of the sequence is the CRC of the bytes before it.
EndsWithCrc(bytes) ==
    /\ Len(bytes) >= 1
    /\ bytes[Len(bytes)] = MaximCrc(SubSeq(bytes, 1, Len(bytes) - 1))

\* C22: check_crc8 returns Ok for every byte sequence whose last byte is
\* the Dallas/Maxim CRC-8 of the bytes before it, called on its own or by
\* read_scratchpad on the nine bytes it has read.
C22_CrcRoundTrip ==
    /\ (Returned("check_crc8") /\ EndsWithCrc(memory)) => result = "Ok"
    /\ (Returned("read_scratchpad") /\ Len(buffer) = SCRATCHPAD_LEN
            /\ EndsWithCrc(buffer)) => result = "Ok"

\* C22 witness: check_crc8 has returned Ok for the scratchpad of 85 degrees,
\* whose ninth byte is the CRC of the first eight.
C22_Witness ==
    /\ Returned("check_crc8")
    /\ memory = MkScratchpad(80, 5, 127)
    /\ EndsWithCrc(memory)
    /\ result = "Ok"

\* C23: if the nine bytes given to check_crc8 are a scratchpad that ends
\* with its CRC with any one of its 72 bits flipped, check_crc8 returns
\* ChecksumFailed.
C23_SingleBitFlipDetected ==
    (Returned("check_crc8") /\ Len(memory) = SCRATCHPAD_LEN) =>
        \A n \in 0..(8 * SCRATCHPAD_LEN - 1) :
            EndsWithCrc(FlipBit(memory, n)) => result = "ChecksumFailed"

\* C23 witness: check_crc8 has returned ChecksumFailed for the scratchpad
\* of 85 degrees with the highest bit of its CRC byte flipped.
C23_Witness ==
    /\ Returned("check_crc8")
    /\ memory = FlipBit(MkScratchpad(80, 5, 127), 71)
    /\ EndsWithCrc(MkScratchpad(80, 5, 127))
    /\ result = "ChecksumFailed"

\* The master has done nothing on the bus: no reset, no bit slot, the pin
\* never driven, no time spent.
BusUntouched ==
    /\ resets = 0
    /\ lowCount = 0
    /\ slots = 0
    /\ highPolls = 0
    /\ txBits = <<>>
    /\ rxBits = <<>>
    /\ pin = "high"
    /\ now = 0

\* C24: Ds18b20::new(address, bus) returns Ok, with a driver that holds the
\* address, iff the lowest byte of the address is the family code 0x28,
\* and FamilyCodeMismatch otherwise; either way it does nothing on the bus.
C24_NewChecksFamilyCode ==
    op = "new" =>
        /\ BusUntouched
        /\ pc = "done" =>
              IF address[1] % 256 = 40
              THEN result = "Ok" /\ output = Ok([address |-> address])
              ELSE result = "FamilyCodeMismatch"

\* C24 witness: new has refused an address whose lowest byte is 0x08, with
\* the bus untouched.
C24_Witness ==
    /\ Returned("new")
    /\ address = U64FlipBit(MkAddress(FAMILY_CODE, 0), 5)
    /\ address[1] % 256 = 8
    /\ result = "FamilyCodeMismatch"
    /\ BusUntouched

\* The configuration byte of each resolution, its greatest conversion time
\* in milliseconds, and the divisor that takes its raw register to degrees.
ResolutionNames == {"Bits9", "Bits10", "Bits11", "Bits12"}
PatternOf(resolution) ==
    CASE resolution = "Bits9"  -> 31
      [] resolution = "Bits10" -> 63
      [] resolution = "Bits11" -> 95
      [] resolution = "Bits12" -> 127
ConversionTimeOf(resolution) ==
    CASE resolution = "Bits9"  -> 94
      [] resolution = "Bits10" -> 188
      [] resolution = "Bits11" -> 375
      [] resolution = "Bits12" -> 750
DivisorOf(resolution) ==
    CASE resolution = "Bits9"  -> 2
      [] resolution = "Bits10" -> 4
      [] resolution = "Bits11" -> 8
      [] resolution = "Bits12" -> 16

\* C25: decoding a configuration byte succeeds exactly for 0x1F, 0x3F, 0x5F
\* and 0x7F, with Bits9, Bits10, Bits11 and Bits12; each of the other 252
\* bytes fails with InvalidResolution.
C25_ResolutionDecode ==
    (op = "resolution" /\ pc # "try_from") =>
        IF \E r \in ResolutionNames : byte = PatternOf(r)
        THEN /\ output.kind = "Ok"
             /\ pc = "max_measurement_time" => byte = PatternOf(output.value)
             /\ pc = "done" =>
                   (result = "Ok" /\ byte = PatternOf(output.value.resolution))
        ELSE /\ pc = "done"
             /\ result = "InvalidResolution"
             /\ output = Err("InvalidResolution")

\* C25 witness: 0x5F has been decoded as Bits11.
C25_Witness ==
    /\ op = "resolution"
    /\ pc = "max_measurement_time"
    /\ byte = 95
    /\ output = Ok("Bits11")

\* The raw register of a scratchpad: bytes 0 and 1, little-endian, as a
\* signed 16-bit number.
RawOf(bytes) ==
    LET u == bytes[1] + 256 * bytes[2]
    IN  IF bytes[2] >= 128 THEN u - 65536 ELSE u

\* C26: max_measurement_time is 94, 188, 375 and 750 ms for Bits9, Bits10,
\* Bits11 and Bits12, and read_sensor_data divides the raw register by 2,
\* 4, 8 and 16 for the same resolutions (the temperature is held in
\* sixteenths, so temperature * divisor = 16 * raw).
C26_TimesAndDivisors ==
    /\ (Returned("resolution") /\ result = "Ok") =>
          output.value.max_measurement_time =
              ConversionTimeOf(output.value.resolution)
    /\ (Returned("read_sensor_data") /\ result = "Ok") =>
          /\ memory[5] = PatternOf(output.value.resolution)
          /\ output.value.temperature * DivisorOf(output.value.resolution)
                = 16 * RawOf(memory)

\* C26 witness: Bits9 has been given its 94 ms.
C26_Witness ==
    /\ Returned("resolution")
    /\ byte = 31
    /\ output = Ok([resolution |-> "Bits9", max_measurement_time |-> 94])

\* C27: read_sensor_data takes bytes 0 and 1 of the scratchpad as a
\* little-endian two's-complement 16-bit number and returns it divided by
\* the divisor of the resolution, with its sign: 0x0550 at 12 bits is 85
\* degrees (1360 sixteenths), 0xFFFE at 12 bits is -0.125 degrees (-2
\* sixteenths).
C27_TemperatureDecode ==
    (Returned("read_sensor_data") /\ result = "Ok") =>
        LET t == output.value.temperature IN
        /\ t * DivisorOf(output.value.resolution) = 16 * RawOf(buffer)
        /\ buffer = memory
        /\ (t < 0) <=> (memory[2] >= 128)
        /\ (memory[1] = 80 /\ memory[2] = 5 /\ memory[5] = 127) => t = 1360
        /\ (memory[1] = 254 /\ memory[2] = 255 /\ memory[5] = 127) => t = -2

\* C27 witness: the register 0xFFFE was read at 12 bits and came out as
\* -2 sixteenths of a degree.
C27_Witness ==
    /\ Returned("read_sensor_data")
    /\ result = "Ok"
    /\ memory = MkScratchpad(254, 255, 127)
    /\ output.value.temperature = -2
    /\ output.value.resolution = "Bits12"

\* C33: reset() acts on the line in this order: release, wait until the
\* line reads high, drive low for 504 us, release, listen for 504 us. The
\* listening loop is left only when 504 us have passed since it began, a
\* presence pulse seen or not, so every bit slot that follows a reset begins
\* at least 504 us after the master started to listen.
C33_ResetOrderAndFullWindow ==
    [][/\ (pc = "reset" /\ pc' # pc) => (pc' = "wait_for_high" /\ pin' = "high")
       /\ pc' = "reset_low" => (pc \in {"wait_for_high", "reset_low"})
       /\ (pc = "wait_for_high" /\ pc' = "reset_low") =>
              (is_high(now) /\ pin = "high" /\ now' = now)
       /\ pc = "reset_low" =>
              /\ pc' = "reset_high"
              /\ pin' = "low"
              /\ now' - now = RESET_TIME_HIGH
       /\ pc = "reset_high" =>
              /\ pc' = "listen"
              /\ pin' = "high"
              /\ start' = now /\ now' = now
       /\ pc' = "listen" => (pc \in {"reset_high", "listen"})
       /\ pc = "listen" =>
              /\ pin' = "high"
              /\ start' = start
              /\ pc' # "listen" => now - start >= RESET_TIME_LOW
       /\ (resets' > 0 /\ slots' > slots) =>
              /\ device_present'
              /\ fallAt' - start' >= RESET_TIME_LOW
      ]_vars

\* A bit slot has run after a reset that saw a presence pulse.
C33_Witness ==
    /\ resets > 0
    /\ device_present
    /\ slots > 0
    /\ fallAt - start >= RESET_TIME_LOW

\* C34: read_sensor_data reports its errors in a fixed order. A reset that
\* failed is returned before a byte is exchanged; after a reset that
\* succeeded, nine bytes whose CRC is wrong give ChecksumFailed whatever
\* their configuration byte, and InvalidResolution comes only from bytes
\* whose CRC is right. ChecksumFailed is the error the sampling loop
\* retries while its counter is below CHECKSUM_RETRIES.
C34_ErrorPrecedence ==
    Returned("read_sensor_data") =>
        IF ~device_present
        THEN /\ result \in {"BusNotHighTimeout", "DeviceNotPresent"}
             /\ slots = 0
        ELSE /\ slots = 8 * (1 + 8 + 1 + 9)
             /\ IF ~EndsWithCrc(buffer)
                THEN /\ result = "ChecksumFailed"
                     /\ \A n \in 0..(CHECKSUM_RETRIES - 1) :
                            ShouldRetry(Err(result), n)
                ELSE IF buffer[5] \notin {PatternOf(r) : r \in ResolutionNames}
                THEN /\ result = "InvalidResolution"
                     /\ \A n \in 0..CHECKSUM_RETRIES :
                            ~ShouldRetry(Err(result), n)
                ELSE result = "Ok"

\* read_sensor_data has returned ChecksumFailed for nine bytes that have a
\* wrong CRC and a configuration byte that is no resolution.
C34_Witness ==
    /\ Returned("read_sensor_data")
    /\ device_present
    /\ ~EndsWithCrc(buffer)
    /\ buffer[5] \notin {PatternOf(r) : r \in ResolutionNames}
    /\ result = "ChecksumFailed"

----------------------------------------------------------------------------
(* Properties of the driver and of the sampling task, checked under       *)
(* SpecSampler.                                                            *)

Constructed == sensor # NoSensor

\* The address the firmware configures has checksum zero.
FirmwareAddressValid == CrcValid(DSPL_TEMP_SENSOR_ADDRESS)

CycleOfChecksumFailures ==
    tpc = "interval" /\ published = 1 /\ crcFailures = attempts

\* C9: a cycle in which every read fails with ChecksumFailed makes exactly
\* 1 + 3 = 4 attempts and then publishes one reading, with retry count 3
\* and the checksum error.
C9_FourAttemptsThenPublish ==
    CycleOfChecksumFailures =>
        /\ attempts = 4
        /\ watch.retries = 3
        /\ watch.temperature = Err("ChecksumFailed")

\* C9 witness: the reading published after four checksum failures.
C9_Witness ==
    /\ CycleOfChecksumFailures
    /\ crcFailures = 4
    /\ watch.temperature = Err("ChecksumFailed")

\* C10: the step taken on the result of an attempt repeats the attempt
\* (one more retry, nothing published) exactly when the result is
\* ChecksumFailed and fewer than 3 retries were made; on any other result
\* the cycle ends, and the reading then published carries that result (the
\* temperature of a success, the error unchanged) and the retries made.
C10_RetryOnlyOnChecksum ==
    [][/\ (tpc = "match" /\ tpc' # tpc) =>
            IF reading = Err("ChecksumFailed") /\ retries < 3
            THEN /\ tpc' = "start"
                 /\ retries' = retries + 1
                 /\ watch' = watch /\ published' = published
            ELSE /\ tpc' = "publish"
                 /\ retries' = retries /\ reading' = reading
                 /\ attempts' = attempts
       /\ (tpc = "publish" /\ tpc' # tpc) =>
            /\ watch'.retries = retries
            /\ watch'.temperature =
                  (IF reading.kind = "Ok" THEN Ok(reading.value.temperature)
                                          ELSE reading)
            /\ attempts = retries + 1
            /\ crcFailures >= retries]_vars

\* C10 witness: DeviceNotPresent published at once, after two retries.
C10_Witness ==
    /\ tpc = "interval"
    /\ published = 1
    /\ watch.temperature = Err("DeviceNotPresent")
    /\ watch.retries = 2
    /\ attempts = 3

\* C11: every sampling cycle publishes exactly one reading, whatever the
\* outcome: nothing is published while the attempts of a cycle run, a retry
\* publishes nothing and leaves the watch alone, the one step that ends a
\* cycle sends one reading (the result of the last attempt, an error as much
\* as a success), and a cycle that has ended has published exactly once.
C11_OnePublishPerCycle ==
    [][/\ (tpc = "interval" /\ tpc' # tpc) => (tpc' = "start" /\ published' = 0)
       /\ (tpc \in {"start", "convert", "read", "match"}) =>
             (published = 0 /\ published' = 0 /\ watch' = watch
                 /\ tpc' # "interval")
       /\ (tpc = "publish" /\ tpc' # tpc) =>
             /\ tpc' = "interval"
             /\ published = 0 /\ published' = 1
             /\ watch' # watch
             /\ watch'.timestamp = clock
             /\ reading.kind = "Err" => watch'.temperature = reading
             /\ reading.kind = "Ok" => watch'.temperature.kind = "Ok"
       /\ (tpc' = "interval" /\ tpc \notin {"interval", "new"}) =>
             (tpc = "publish" /\ published' = 1)]_vars

\* C11 witness: the second cycle has ended with its single reading, an
\* error that is not retried, published after one retried attempt.
C11_Witness ==
    /\ tpc = "interval"
    /\ cycles = 2
    /\ published = 1
    /\ watch.temperature = Err("InvalidResolution")
    /\ watch.retries = 1
    /\ attempts = 2

\* The checksum of each scratchpad that the task can hold.
ScratchChecksum ==
    [bytes \in ScratchPool \cup {EmptyScratchpad} |-> Checksum(0, bytes, 1)]

\* C12: a reading is built only from a scratchpad whose nine bytes have
\* checksum zero, and it is built from those bytes; a scratchpad that was
\* read and whose checksum is not zero yields ChecksumFailed, whatever its
\* other bytes hold.
C12_ScratchpadCrcBeforeUse ==
    (tpc \in {"match", "publish"}) =>
        /\ reading.kind = "Ok" =>
              /\ ScratchChecksum[scratch] = 0
              /\ scratch # EmptyScratchpad
              /\ reading.value.resolution = "Bits12" =>
                    reading.value.temperature =
                        i16_from_le_bytes(scratch[1], scratch[2])
        /\ ScratchChecksum[scratch] # 0 => reading = Err("ChecksumFailed")
        /\ reading = Err("ChecksumFailed") => ScratchChecksum[scratch] # 0

\* C12 witness: a scratchpad with a failing CRC and a configuration byte
\* that is no resolution was read: the attempt ends in ChecksumFailed.
C12_Witness ==
    /\ tpc = "match"
    /\ ScratchChecksum[scratch] # 0
    /\ Resolution_try_from(scratch[5]).kind = "Err"
    /\ reading = Err("ChecksumFailed")

\* The scratchpad read in this attempt ends with its CRC and holds a
\* configuration byte that is a resolution.
SoundReading(bytes) ==
    /\ EndsWithCrc(bytes)
    /\ \E r \in ResolutionNames : bytes[5] = PatternOf(r)

\* The same, with the power-on register 0x0550.
PowerOnReading(bytes) ==
    SoundReading(bytes) /\ bytes[1] = 80 /\ bytes[2] = 5

\* The scratchpads of these two kinds among those the task can hold.
SoundReadings ==
    {bytes \in ScratchPool \cup {EmptyScratchpad} : SoundReading(bytes)}
PowerOnReadings == {bytes \in SoundReadings : PowerOnReading(bytes)}

\* C28: a scratchpad with a valid CRC, a valid configuration byte and the
\* power-on register 0x0550 makes read_sensor_data return Ok, with 85
\* degrees at 12 bits; the loop leaves the attempt without a retry and
\* publishes the reading as a success with the retries counted so far, as
\* it does for every other register.
C28_PowerOnValueNotSpecial ==
    [][ /\ (tpc = "read" /\ tpc' = "match" /\ scratch' \in SoundReadings) =>
              /\ reading'.kind = "Ok"
              /\ reading'.value.temperature
                    * DivisorOf(reading'.value.resolution)
                    = 16 * RawOf(scratch')
              /\ (scratch' \in PowerOnReadings /\ scratch'[5] = 127) =>
                    reading'.value.temperature = 85 * 16
        /\ (tpc = "match" /\ scratch \in SoundReadings) =>
              /\ tpc' = "publish"
              /\ retries' = retries
              /\ reading' = reading
        /\ (tpc = "publish" /\ scratch \in SoundReadings) =>
              /\ published' = published + 1
              /\ watch'.temperature = Ok(reading.value.temperature)
              /\ watch'.retries = retries
      ]_vars

\* C28 witness: the register 0x0550 was read at 12 bits in the first
\* attempt of a cycle and published as Ok(85 degrees) with no retry.
C28_Witness ==
    /\ tpc = "interval"
    /\ published = 1
    /\ scratch = MkScratchpad(80, 5, 127)
    /\ scratch \in PowerOnReadings
    /\ watch.temperature = Ok(85 * 16)
    /\ watch.retries = 0

\* C29: in every attempt read_sensor_data is called only after
\* start_temp_measurement returned Ok and the task then waited at least the
\* greatest conversion time: 750 ms, which is no less than that of the
\* resolution the sensor turns out to have. If start_temp_measurement
\* fails, the attempt ends with its error, with no wait and no read.
C29_ReadAfterConversionWait ==
    [][ /\ (tpc = "read" /\ tpc' # "read") =>
              /\ startedAt >= 0
              /\ clock - startedAt >= ConversionTimeOf("Bits12")
              /\ \A r \in ResolutionNames :
                    (scratch' # EmptyScratchpad /\ scratch'[5] = PatternOf(r))
                        => clock - startedAt >= ConversionTimeOf(r)
        /\ (tpc # "read" /\ tpc' = "read") =>
              /\ tpc = "convert"
              /\ startedAt >= 0
              /\ clock' - startedAt >= ConversionTimeOf("Bits12")
        /\ (tpc = "start" /\ tpc' = "convert") =>
              /\ startedAt' = clock
              /\ clock' = clock
        /\ (tpc = "start" /\ tpc' # "convert") =>
              /\ tpc' = "match"
              /\ reading' \in {Err("BusNotHighTimeout"), Err("DeviceNotPresent")}
              /\ startedAt' = -1
              /\ clock' = clock
        /\ (tpc = "match" /\ startedAt = -1) =>
              /\ reading \in {Err("BusNotHighTimeout"), Err("DeviceNotPresent")}
              /\ scratch = EmptyScratchpad
              /\ tpc' = "publish"
              /\ reading' = reading
              /\ clock' = clock
      ]_vars

\* C29 witness: a sensor set to 9 bits was read 750 ms after
\* start_temp_measurement returned Ok at 5000 ms.
C29_Witness ==
    /\ tpc = "match"
    /\ startedAt = TEMP_MEASUREMENT_INTERVAL
    /\ clock - startedAt = 750
    /\ reading.kind = "Ok"
    /\ reading.value.resolution = "Bits9"

\* C30: another task runs only while the sampling task waits on the
\* interval timer or on the conversion timer, and leaves the sampling task
\* and the bus as they were; start_temp_measurement and read_sensor_data
\* each run from call to return in one step of the sampling task, with no
\* other task in between.
C30_BusTransactionsNotInterleaved ==
    [][ /\ seen' # seen =>
              /\ tpc \in {"interval", "convert"}
              /\ seen' = watch
              /\ UNCHANGED <<tpc, sensor, attempts, startedAt, reading,
                             scratch, retries, crcFailures, watch,
                             published, cycles, clock, busVars, restVars>>
        /\ tpc = "start" =>
              /\ tpc' \in {"convert", "match"}
              /\ attempts' = attempts + 1
              /\ seen' = seen
        /\ tpc = "read" =>
              /\ tpc' = "match"
              /\ seen' = seen
        /\ tpc \in {"match", "publish"} => seen' = seen
        /\ tpc' # tpc =>
              /\ seen' = seen
              /\ (clock' # clock) <=> (tpc \in {"interval", "convert"})
      ]_vars

\* C30 witness: during the conversion wait of the second cycle another
\* task has taken the reading that the first cycle published.
C30_Witness ==
    /\ tpc = "convert"
    /\ cycles = 1
    /\ watch # NoReading
    /\ seen = watch

\* C35: the retry count of every published reading lies in 0..3 and is the
\* number of attempts of that cycle that ended in ChecksumFailed and were
\* retried. The counter is 0 when a cycle begins; a cycle publishes after
\* retries + 1 attempts, and a reading that is not ChecksumFailed after k
\* checksum failures carries retries = k.
C35_RetriesCountThisCyclesChecksumFailures ==
    [][/\ (tpc = "interval" /\ tpc' = "start") => retries' = 0
       /\ (tpc = "publish" /\ tpc' = "interval") =>
              /\ watch'.retries = retries
              /\ watch'.retries \in 0..CHECKSUM_RETRIES
              /\ attempts = watch'.retries + 1
              /\ watch'.retries =
                     IF reading = Err("ChecksumFailed")
                     THEN crcFailures - 1 ELSE crcFailures
              /\ reading = Err("ChecksumFailed") =>
                     watch'.retries = CHECKSUM_RETRIES
       /\ (watch' # NoReading) => watch'.retries \in 0..CHECKSUM_RETRIES
      ]_vars

\* The second cycle has published a temperature after two checksum
\* failures of its own.
C35_Witness ==
    /\ cycles = 2
    /\ tpc = "interval"
    /\ watch # NoReading
    /\ watch.retries = 2
    /\ watch.temperature.kind = "Ok"
    /\ crcFailures = 2
    /\ attempts = 3

\* C31: no error ends the sampling task. Once the driver is constructed the
\* task never panics or leaves its loop; the only way out of a cycle,
\* whatever its attempts returned, is the publication of the cycle's result,
\* which counts the cycle; and under fair scheduling of the task's steps the
\* task goes from any point on through cycle after cycle, as many as the
\* model counts.
C31_EveryCyclePublishesAndRepeats ==
    /\ [](sensor # NoSensor =>
              tpc \in {"interval", "start", "convert", "read", "match",
                       "publish"})
    /\ [][(/\ tpc \in {"start", "convert", "read", "match", "publish"}
           /\ tpc' \notin {"start", "convert", "read", "match", "publish"})
              => /\ tpc' = "interval"
                 /\ published' = 1
                 /\ cycles' = cycles + 1
                 /\ watch'.temperature = TemperatureOf(reading)]_vars
    /\ (sensor # NoSensor) ~> (cycles = MaxCycles /\ tpc = "interval")

\* A cycle ended with an error, the error was published and the next cycle
\* has begun.
C31_Witness ==
    /\ tpc = "start"
    /\ cycles = 1
    /\ watch # NoReading
    /\ watch.temperature.kind = "Err"

----------------------------------------------------------------------------
(* Properties of the in-memory log, checked under SpecLog. *)

\* The sum of the text lengths of a sequence of records.
RECURSIVE TextSum(_)
TextSum(recs) ==
    IF recs = <<>> THEN 0 ELSE Len(Head(recs).text) + TextSum(Tail(recs))

\* C39: with a capacity of at least Len(DISCARD_ERROR), after every call the
\* utilization is the sum of the text lengths of the stored records and is
\* at most the capacity, and no call pops from an empty queue. add_record
\* puts its record at the front and keeps the newest of the old records: it
\* drops from the oldest end, and as few as make room. A text longer than
\* the capacity is stored as a warning with the text DISCARD_ERROR.
C39_LogStorageAccounting ==
    [][/\ logpc' # "unwrap_panic"
       /\ GLOBAL_LOGGER'.capacity >= Len(DISCARD_ERROR)
       /\ GLOBAL_LOGGER'.utilization = TextSum(GLOBAL_LOGGER'.records)
       /\ GLOBAL_LOGGER'.utilization <= GLOBAL_LOGGER'.capacity
       /\ logged' # logged =>
            LET old == GLOBAL_LOGGER.records
                new == GLOBAL_LOGGER'.records
                room == GLOBAL_LOGGER.capacity
                tooLong == Len(logCall'.text) > room
            IN  /\ GLOBAL_LOGGER'.capacity = room
                /\ new # <<>>
                /\ new[1].text = IF tooLong THEN DISCARD_ERROR
                                 ELSE logCall'.text
                /\ new[1].level = IF tooLong THEN "Warn" ELSE logCall'.level
                /\ \E kept \in 0..Len(old) :
                     /\ Tail(new) = SubSeq(old, 1, kept)
                     /\ kept < Len(old) =>
                            room - TextSum(SubSeq(old, 1, kept + 1))
                                < Len(new[1].text)
       /\ (logCall'.fn = "clear" /\ logpc' = logpc) =>
              /\ GLOBAL_LOGGER'.records = <<>>
              /\ GLOBAL_LOGGER'.utilization = 0
      ]_vars

\* A text too long for the storage was logged when the storage held two
\* records: the newer of the two was kept, the older one was dropped, and a
\* warning with the text DISCARD_ERROR was stored.
C39_Witness ==
    /\ logpc = "ready"
    /\ logCall.fn = "add_record"
    /\ Len(logCall.text) > GLOBAL_LOGGER.capacity
    /\ Len(GLOBAL_LOGGER.records) = 2
    /\ GLOBAL_LOGGER.records[1].text = DISCARD_ERROR
    /\ GLOBAL_LOGGER.records[1].level = "Warn"
    /\ GLOBAL_LOGGER.records[1].instant = 3
    /\ GLOBAL_LOGGER.records[2].instant = 2
    /\ GLOBAL_LOGGER.records[2].text # ""

----------------------------------------------------------------------------
(* Properties of the receivers of the temperature watch and of the fan,    *)
(* checked under SpecConsumers.                                             *)

\* C32: the watch delivers the latest value only. The value it holds is the
\* reading sent last; a receiver that reads it obtains that reading and is
\* then up to date, so the readings a receiver obtains are readings that
\* were sent, in the order they were sent, and none of them older than one
\* it had before; what was sent and replaced before the receiver read is
\* never delivered to it.
C32_LatestValueOnly ==
    [][/\ history' # <<>> => watch' = history'[Len(history')]
       /\ \A c \in Receivers :
            /\ received'[c] # received[c] =>
                   /\ history # <<>>
                   /\ received'[c] = Append(received[c], history[Len(history)])
                   /\ at_id'[c] = Len(history)
            /\ \A j \in 1..Len(received'[c]) :
                   /\ received'[c][j] \in {history'[n] : n \in 1..Len(history')}
                   /\ j > 1 => received'[c][j - 1].timestamp
                                   < received'[c][j].timestamp
      ]_vars

\* Three readings were sent. The HTTP server read the watch for the first
\* time after the third and obtained the third alone; fan_temp_control
\* obtained the first and then the third, the second having been replaced
\* before it ran.
C32_Witness ==
    /\ Len(history) = 3
    /\ received["httpd"] = <<history[3]>>
    /\ received["fan_temp_control"] = <<history[1], history[3]>>

\* C40: fan_temp_control sends a duty only for a reading whose temperature
\* is Ok. A reading that carries an error changes neither the value of the
\* fan-duty watch nor the controller, and nothing but a turn of
\* fan_temp_control on an Ok reading changes them.
C40_FanDutyOnlyForOkReadings ==
    [][/\ received'["fan_temp_control"] # received["fan_temp_control"] =>
            IF watch.temperature.kind = "Ok"
            THEN /\ dutySent' = dutySent + 1
                 /\ fanduty' \in 0..100
                 /\ pid_controller'.prev_measurement = watch.temperature.value
            ELSE /\ dutySent' = dutySent
                 /\ fanduty' = fanduty
                 /\ pid_controller' = pid_controller
       /\ (dutySent' # dutySent \/ fanduty' # fanduty
           \/ pid_controller' # pid_controller) =>
              /\ received'["fan_temp_control"] =
                     Append(received["fan_temp_control"], watch)
              /\ watch.temperature.kind = "Ok"
       /\ pwm' # pwm => pwm' = fanduty
      ]_vars

\* fan_temp_control took a reading of 85 degrees and then one that carries
\* an error: one duty was sent, and the controller is as the first reading
\* left it.
C40_Witness ==
    /\ Len(received["fan_temp_control"]) = 2
    /\ received["fan_temp_control"][1].temperature = Ok(1360)
    /\ received["fan_temp_control"][2].temperature.kind = "Err"
    /\ dutySent = 1
    /\ fanduty = 83
    /\ pid_controller =
           FanPidController_update(FanPidController_new, 1360).controller

----------------------------------------------------------------------------
(* Properties of the display state and of the power sequences, checked     *)
(* under SpecPowerCalls and SpecPower.                                      *)

\* The cycle of the display state.
CycleEdges ==
    {<<"Standby", "PoweringOn">>, <<"PoweringOn", "DisplayOn">>,
     <<"DisplayOn", "PoweringOff">>, <<"PoweringOff", "Standby">>}
\* For each setter, the one state it is valid in and the state it sets.
ValidFrom ==
    [set_standby |-> "PoweringOff", set_powering_on |-> "Standby",
     set_display_on |-> "PoweringOn", set_powering_off |-> "DisplayOn"]
Target ==
    [set_standby |-> "Standby", set_powering_on |-> "PoweringOn",
     set_display_on |-> "DisplayOn", set_powering_off |-> "PoweringOff"]

\* C36: the display state changes only along Standby -> PoweringOn ->
\* DisplayOn -> PoweringOff -> Standby. A set_* call made in the state that
\* is its valid predecessor returns Ok and sets its state; made in any
\* other state it returns an error and leaves the state as it was.
C36_StateCycle ==
    [][/\ state' # state => <<state, state'>> \in CycleEdges
       /\ setterCall' # setterCall =>
            /\ setterCall'.from = state
            /\ IF state = ValidFrom[setterCall'.fn]
               THEN /\ setterCall'.result = "Ok"
                    /\ state' = Target[setterCall'.fn]
               ELSE /\ setterCall'.result = "Err"
                    /\ state' = state
      ]_vars

\* With the display on, set_powering_on was called: it returned an error
\* and the state is still DisplayOn.
C36_Witness ==
    /\ setterCall.fn = "set_powering_on"
    /\ setterCall.from = "DisplayOn"
    /\ setterCall.result = "Err"
    /\ state = "DisplayOn"

\* What pin_control did for the messages of one call, in order.
PinActionsOf(tag, log) ==
    LET own == SelectSeq(log, LAMBDA e : e.from = tag)
    IN  [j \in 1..Len(own) |-> <<own[j].pin, own[j].level>>]
IsPrefix(a, b) == Len(a) <= Len(b) /\ a = SubSeq(b, 1, Len(a))
\* power_on: the 24V rail on, then the pulse on the power button.
OnSequence ==
    <<<<"pin_power_display", "high">>, <<"pin_button_power", "high">>,
      <<"pin_button_power", "low">>>>
\* power_off: the pulse on the power button, then the 24V rail off.
OffSequence ==
    <<<<"pin_button_power", "high">>, <<"pin_button_power", "low">>,
      <<"pin_power_display", "low">>>>

\* C37: the pin actions of a power sequence happen in the order of its
\* sends, whatever else goes through the channel: for a call of power_on
\* the 24V rail is switched on before the power button is pulsed, for a
\* call of power_off the power button is pulsed before the rail is switched
\* off. A call of power_on in a state other than Standby, or of power_off
\* in a state other than DisplayOn, returns an error, sends nothing to
\* either channel and leaves the state as it was.
C37_PowerSequenceOrder ==
    [][/\ pinlog' # pinlog => \A n \in 1..callsMade' :
            /\ IsPrefix(PinActionsOf(<<"power_on", n>>, pinlog'), OnSequence)
            /\ IsPrefix(PinActionsOf(<<"power_off", n>>, pinlog'), OffSequence)
       /\ (PowerAt("begin") /\ fpc' # fpc) =>
            IF state = (IF fpc.fn = "power_on" THEN "Standby" ELSE "DisplayOn")
            THEN /\ state' = (IF fpc.fn = "power_on" THEN "PoweringOn"
                              ELSE "PoweringOff")
                 /\ fpc'.step = 2
            ELSE /\ fresult' = "Err"
                 /\ fpc'.step = 7
                 /\ state' = state
                 /\ pincontrol_channel' = pincontrol_channel
                 /\ buzzer_channel' = buzzer_channel
       /\ (fpc.fn \in PowerFunctions /\ fpc.step = 7) =>
              (pincontrol_channel' = pincontrol_channel
               \/ Len(pincontrol_channel') < Len(pincontrol_channel)
               \/ pincontrol_channel'[Len(pincontrol_channel')].from[1]
                      = "other")
      ]_vars

\* power_on ran from Standby to its end and pin_control switched the rail
\* on and pulsed the button, in that order; a second power_on, called with
\* the display on, returned an error.
C37_Witness ==
    /\ callsMade = 2
    /\ fpc = [fn |-> "power_on", step |-> 7, call |-> 2]
    /\ fresult = "Err"
    /\ state = "DisplayOn"
    /\ PinActionsOf(<<"power_on", 1>>, pinlog) = OnSequence
    /\ PinActionsOf(<<"power_on", 2>>, pinlog) = <<>>
    /\ otherSends = 1

\* C38: the case-button task is the only caller of power_on and power_off
\* and awaits each call, so whenever it evaluates a press the state is
\* Standby or DisplayOn: the invalid-state arm is never taken, every call it
\* makes returns Ok, and its unwrap never panics, whatever the other tasks
\* send to pin_control in between.
C38_CaseButtonCallsSucceed ==
    [][/\ ignored' = ignored
       /\ cbpc' # "panicked"
       /\ (cbpc = "held" /\ cbpc' # "held") =>
              state \in {"Standby", "DisplayOn"}
       /\ (fpc'.fn \in PowerFunctions /\ fpc'.step = 7) => fresult' = "Ok"
       /\ (cbpc = "await_power" /\ cbpc' # cbpc) =>
              /\ fresult = "Ok"
              /\ state \in {"Standby", "DisplayOn"}
      ]_vars

\* Two presses were evaluated and both calls have returned Ok: the display
\* was powered on and off again, with a message of another task in between.
C38_Witness ==
    /\ presses = 2
    /\ callsMade = 2
    /\ cbpc = "wait_edge"
    /\ fresult = "Ok"
    /\ state = "Standby"
    /\ otherSends = 1
    /\ ignored = 0
    /\ PinActionsOf(<<"power_off", 2>>, pinlog) = OffSequence

====
